---- MODULE Spec2Model ----
(***************************************************************************)
(* Clanker Town: the on-chain resource game (game_nft.move), the ledger     *)
(* service that projects generators into the game world                    *)
(* (SuiGameService, GameWorld) and the agent context synthesis              *)
(* (WorldContextServiceExtended).                                           *)
(*                                                                         *)
(* The ledger part models the bodies of the Move entry functions.  Which    *)
(* objects a transaction may name is decided by the chain, outside the     *)
(* module: here every existing object may be passed to every entry          *)
(* function, so the checks made by the Move code itself are what stands     *)
(* between a sender and a state change.                                     *)
(***************************************************************************)
EXTENDS Integers, Sequences, FiniteSets, TLC

(***************************************************************************)
(* Constants of game_nft.move                                               *)
(***************************************************************************)
E_NOT_PARTICIPANT == 1
E_GENERATOR_OCCUPIED == 2
E_NOT_OWNER == 3
E_INSUFFICIENT_RESOURCES == 4

GENERATION_INTERVAL_MS == 60000
BASE_GENERATION == 10
BASE_CAP == 1000

WOOD == 0
STONE == 1

\* @0x0, the owner of an unclaimed generator
ZeroAddr == "0x0"

(***************************************************************************)
(* Bounds of the model                                                      *)
(***************************************************************************)
MaxMatches == 1
MaxGens == 1
MaxProposals == 2

\* transaction senders; "0xcccccc03" is in no participant list
Senders == {"0xaaaaaa01", "0xbbbbbb02", "0xcccccc03"}
ParticipantLists == {<<"0xaaaaaa01", "0xbbbbbb02">>}
\* initial_wood, initial_stone, initial_emerald (the service's defaults)
InitialAmounts == {<<100, 100, 50>>}
ResourceTypes == {0, 1, 2}
\* x_coords / y_coords of one create_generators call, as positions
PositionLists == {<< <<10, 20>> >>, << <<10, 20>>, <<30, 40>> >>}
\* <<wood, stone, emerald>> offered and requested
TradeOffers == {<<60, 0, 0>>, <<0, 60, 30>>}
TradeRequests == {<<0, 0, 0>>, <<0, 0, 30>>, <<0, 120, 0>>}
\* timestamps the chain clock takes: 1.5 intervals and 102.5 intervals after 0
ClockValues == {0, 90000, 6150000}

VARIABLES
    matches,      \* GameMatch objects, by id 1..Len
    resources,    \* PlayerResources objects, by id 1..Len
    generators,   \* Generator objects, by id 1..Len
    proposals,    \* TradeProposal objects, by id 1..Len; live = FALSE once deleted
    clock,        \* sui::clock timestamp_ms
    lastTx,       \* the last transaction submitted and how it ended
    holder,       \* [gens, props]: per object, the address whose owned objects list it
    suiGameService, \* [defined, currentGameId]; currentGameId 0 is null
    esService,    \* [defined, players, items, agents]: the indices and what they store
    agents,       \* GameWorld.agents, in insertion order
    items,        \* GameWorld.items, in insertion order
    uuids,        \* how many ids uuidv4 has handed out
    lastCall,     \* the service call last observed and what it returned
    browser,      \* the browser client: [gameState, localStorage, pending]
    calls         \* the backend calls in flight, each parked at an await

ledgerVars == <<matches, resources, generators, proposals, clock, lastTx>>
worldVars == <<holder, suiGameService, esService, agents, items, uuids, lastCall>>
vars == <<matches, resources, generators, proposals, clock, lastTx,
          holder, suiGameService, esService, agents, items, uuids, lastCall,
          browser, calls>>

(***************************************************************************)
(* The browser client: the chat state of App and the chat histories kept   *)
(* in localStorage                                                          *)
(***************************************************************************)
CHAT_HISTORY_PREFIX == "letta_rpg_chat_"

\* useState's initial gameState (the chat fields), an empty localStorage and
\* no request in flight; selectedAgent "" is null
BrowserInit ==
    [gameState |-> [selectedAgent |-> "", chatHistory |-> <<>>,
                    historicalChatHistory |-> <<>>, currentSessionStart |-> 0,
                    isLoading |-> FALSE],
     localStorage |-> <<>>,
     pending |-> <<>>]

\* localStorage.setItem; localStorage is a sequence of [key, value]
setItem(storage, key, value) ==
    IF \E i \in 1..Len(storage) : storage[i].key = key
    THEN [i \in 1..Len(storage) |->
             IF storage[i].key = key THEN [key |-> key, value |-> value]
             ELSE storage[i]]
    ELSE Append(storage, [key |-> key, value |-> value])

\* localStorage.removeItem
removeItem(storage, key) == SelectSeq(storage, LAMBDA e : e.key # key)

\* saveChatHistory: the messages are stored under the agent's key
saveChatHistory(storage, agentId, messages) ==
    setItem(storage, CHAT_HISTORY_PREFIX \o agentId, messages)

\* loadChatHistory: the messages stored under the agent's key, [] when none
loadChatHistory(storage, agentId) ==
    LET hits == SelectSeq(storage, LAMBDA e : e.key = CHAT_HISTORY_PREFIX \o agentId)
    IN IF hits = <<>> THEN <<>> ELSE hits[1].value

NoTx == [op |-> "none", sender |-> ZeroAddr, ok |-> TRUE, code |-> 0,
         gen |-> 0, res |-> 0, res2 |-> 0, prop |-> 0, credited |-> 0]

\* an aborted transaction is recorded with its sender and abort code only
Tx(op, sender, code, gen, res, res2, prop, credited) ==
    IF code = 0
    THEN [op |-> op, sender |-> sender, ok |-> TRUE, code |-> 0,
          gen |-> gen, res |-> res, res2 |-> res2, prop |-> prop,
          credited |-> credited]
    ELSE [op |-> op, sender |-> sender, ok |-> FALSE, code |-> code,
          gen |-> 0, res |-> 0, res2 |-> 0, prop |-> 0, credited |-> 0]

\* vector::contains
contains(v, e) == \E i \in 1..Len(v) : v[i] = e

(***************************************************************************)
(* create_match                                                             *)
(***************************************************************************)
create_match(sender, participants, initial_wood, initial_stone, initial_emerald) ==
    /\ LET game_id == Len(matches) + 1
       IN /\ matches' = Append(matches,
                 [creator |-> sender, participants |-> participants])
          /\ resources' = resources \o
                 [i \in 1..Len(participants) |->
                     [game_id |-> game_id, owner |-> participants[i],
                      wood |-> initial_wood, stone |-> initial_stone,
                      emerald |-> initial_emerald]]
          /\ lastTx' = Tx("create_match", sender, 0, 0, 0, 0, 0, 0)
    /\ UNCHANGED <<generators, proposals, clock>>

(***************************************************************************)
(* create_generators                                                        *)
(***************************************************************************)
create_generators_abort(game, sender) ==
    IF sender # matches[game].creator THEN E_NOT_PARTICIPANT ELSE 0

new_generator(game_id, resource_type, pos, current_time) ==
    [game_id |-> game_id, resource_type |-> resource_type,
     x |-> pos[1], y |-> pos[2],
     owner |-> ZeroAddr, level |-> 0,
     generation_rate |-> BASE_GENERATION, max_cap |-> BASE_CAP,
     unclaimed |-> 0, last_claim_time |-> current_time,
     last_recaptured_by |-> ZeroAddr, last_recaptured_from |-> ZeroAddr]

create_generators(sender, game, resource_type, positions) ==
    /\ game \in 1..Len(matches)
    /\ LET code == create_generators_abort(game, sender)
       IN /\ generators' =
                 IF code = 0
                 THEN generators \o
                      [i \in 1..Len(positions) |->
                          new_generator(game, resource_type, positions[i], clock)]
                 ELSE generators
          /\ lastTx' = Tx("create_generators", sender, code, 0, 0, 0, 0, 0)
    /\ UNCHANGED <<matches, resources, proposals, clock>>

(***************************************************************************)
(* claim_generator                                                          *)
(***************************************************************************)
\* the variant that lets a claimed generator be claimed again
claim_generator_abort_reclaim(game, gen, sender) ==
    IF ~contains(matches[game].participants, sender) THEN E_NOT_PARTICIPANT
    ELSE 0

claim_generator_abort(game, gen, sender) ==
    IF ~contains(matches[game].participants, sender) THEN E_NOT_PARTICIPANT
    ELSE IF generators[gen].owner # ZeroAddr THEN E_GENERATOR_OCCUPIED
    ELSE 0

claim_generator(sender, game, gen) ==
    /\ game \in 1..Len(matches)
    /\ gen \in 1..Len(generators)
    /\ LET code == claim_generator_abort(game, gen, sender)
       IN /\ generators' =
                 IF code = 0
                 THEN [generators EXCEPT ![gen].owner = sender,
                                         ![gen].last_claim_time = clock]
                 ELSE generators
          /\ lastTx' = Tx("claim_generator", sender, code, gen, 0, 0, 0, 0)
    /\ UNCHANGED <<matches, resources, proposals, clock>>

(***************************************************************************)
(* claim_resources                                                          *)
(***************************************************************************)
\* the resource counter a generator of this type pays into
credit(r, resource_type, amount) ==
    IF resource_type = WOOD THEN [r EXCEPT !.wood = r.wood + amount]
    ELSE IF resource_type = STONE THEN [r EXCEPT !.stone = r.stone + amount]
    ELSE [r EXCEPT !.emerald = r.emerald + amount]

\* the variant that lets anyone drain a generator into a record of their own
claim_resources_abort_any_generator(gen, res, sender) ==
    IF resources[res].owner # sender THEN E_NOT_OWNER
    ELSE 0

claim_resources_abort(gen, res, sender) ==
    IF generators[gen].owner # sender THEN E_NOT_OWNER
    ELSE IF resources[res].owner # sender THEN E_NOT_OWNER
    ELSE 0

\* mutant of to_claim: the settlement without the cap
to_claim_uncapped(g, current_time) ==
    LET time_diff == current_time - g.last_claim_time
        intervals == time_diff \div GENERATION_INTERVAL_MS
    IN g.unclaimed + intervals * g.generation_rate

to_claim(g, current_time) ==
    LET time_diff == current_time - g.last_claim_time
        intervals == time_diff \div GENERATION_INTERVAL_MS
        generated == intervals * g.generation_rate
        total     == g.unclaimed + generated
    IN IF total > g.max_cap THEN g.max_cap ELSE total

claim_resources(sender, gen, res) ==
    /\ gen \in 1..Len(generators)
    /\ res \in 1..Len(resources)
    /\ LET code   == claim_resources_abort(gen, res, sender)
           amount == to_claim(generators[gen], clock)
           paid   == code = 0 /\ amount > 0
       IN /\ resources' =
                 IF paid
                 THEN [resources EXCEPT ![res] =
                          credit(@, generators[gen].resource_type, amount)]
                 ELSE resources
          /\ generators' =
                 IF paid
                 THEN [generators EXCEPT ![gen].unclaimed = 0,
                                         ![gen].last_claim_time = clock]
                 ELSE generators
          /\ lastTx' = Tx("claim_resources", sender, code, gen, res, 0, 0,
                          IF paid THEN amount ELSE 0)
    /\ UNCHANGED <<matches, proposals, clock>>

(***************************************************************************)
(* upgrade_generator                                                        *)
(***************************************************************************)
upgrade_cost(g) == 100 * (g.level + 1)

\* the variant that does not look at the balances
upgrade_generator_abort_unfunded(gen, res, sender) ==
    IF generators[gen].owner # sender THEN E_NOT_OWNER
    ELSE IF resources[res].owner # sender THEN E_NOT_OWNER
    ELSE 0

upgrade_generator_abort(gen, res, sender) ==
    LET cost == upgrade_cost(generators[gen])
    IN IF generators[gen].owner # sender THEN E_NOT_OWNER
       ELSE IF resources[res].owner # sender THEN E_NOT_OWNER
       ELSE IF resources[res].wood < cost THEN E_INSUFFICIENT_RESOURCES
       ELSE IF resources[res].stone < cost THEN E_INSUFFICIENT_RESOURCES
       ELSE IF resources[res].emerald < cost \div 2 THEN E_INSUFFICIENT_RESOURCES
       ELSE 0

upgrade_generator(sender, gen, res) ==
    /\ gen \in 1..Len(generators)
    /\ res \in 1..Len(resources)
    /\ LET code == upgrade_generator_abort(gen, res, sender)
           cost == upgrade_cost(generators[gen])
           level == generators[gen].level + 1
       IN /\ resources' =
                 IF code = 0
                 THEN [resources EXCEPT ![res].wood = @ - cost,
                                        ![res].stone = @ - cost,
                                        ![res].emerald = @ - (cost \div 2)]
                 ELSE resources
          /\ generators' =
                 IF code = 0
                 THEN [generators EXCEPT
                          ![gen].level = level,
                          ![gen].generation_rate = BASE_GENERATION * 2 * (level + 1),
                          ![gen].max_cap = BASE_CAP * (level + 1)]
                 ELSE generators
          /\ lastTx' = Tx("upgrade_generator", sender, code, gen, res, 0, 0, 0)
    /\ UNCHANGED <<matches, proposals, clock>>

(***************************************************************************)
(* recapture_generator                                                      *)
(***************************************************************************)
recapture_generator_abort(game, gen, sender) ==
    IF ~contains(matches[game].participants, sender) THEN E_NOT_PARTICIPANT
    ELSE IF generators[gen].owner = ZeroAddr THEN E_NOT_OWNER
    ELSE IF generators[gen].owner = sender THEN E_NOT_OWNER
    ELSE 0

stolen(g, current_time) ==
    LET time_diff == current_time - g.last_claim_time
        intervals == time_diff \div GENERATION_INTERVAL_MS
        generated == intervals * g.generation_rate
        total     == g.unclaimed + generated
    IN IF total > g.max_cap THEN g.max_cap ELSE total

recapture_generator(sender, game, gen, res) ==
    /\ game \in 1..Len(matches)
    /\ gen \in 1..Len(generators)
    /\ res \in 1..Len(resources)
    /\ LET code   == recapture_generator_abort(game, gen, sender)
           amount == stolen(generators[gen], clock)
           previous_owner == generators[gen].owner
       IN /\ resources' =
                 IF code = 0 /\ amount > 0
                 THEN [resources EXCEPT ![res] =
                          credit(@, generators[gen].resource_type, amount)]
                 ELSE resources
          /\ generators' =
                 IF code = 0
                 THEN [generators EXCEPT
                          ![gen].owner = sender,
                          ![gen].level = 0,
                          ![gen].generation_rate = BASE_GENERATION,
                          ![gen].max_cap = BASE_CAP,
                          ![gen].unclaimed = 0,
                          ![gen].last_claim_time = clock,
                          ![gen].last_recaptured_by = sender,
                          ![gen].last_recaptured_from = previous_owner]
                 ELSE generators
          /\ lastTx' = Tx("recapture_generator", sender, code, gen, res, 0, 0,
                          IF code = 0 THEN amount ELSE 0)
    /\ UNCHANGED <<matches, proposals, clock>>

(***************************************************************************)
(* propose_trade                                                            *)
(***************************************************************************)
propose_trade_abort(game, res, proposer, target, offer) ==
    LET pr == resources[res]
        ps == matches[game].participants
    IN IF pr.owner # proposer THEN E_NOT_OWNER
       ELSE IF ~contains(ps, proposer) THEN E_NOT_PARTICIPANT
       ELSE IF ~contains(ps, target) THEN E_NOT_PARTICIPANT
       ELSE IF pr.wood < offer[1] THEN E_INSUFFICIENT_RESOURCES
       ELSE IF pr.stone < offer[2] THEN E_INSUFFICIENT_RESOURCES
       ELSE IF pr.emerald < offer[3] THEN E_INSUFFICIENT_RESOURCES
       ELSE 0

\* the variant that takes the offer out of the proposer's record at once
propose_trade_escrow(proposer, game, res, target, offer, request) ==
    /\ game \in 1..Len(matches)
    /\ res \in 1..Len(resources)
    /\ LET code == propose_trade_abort(game, res, proposer, target, offer)
       IN /\ proposals' =
                 IF code = 0
                 THEN Append(proposals,
                        [live |-> TRUE, game_id |-> game,
                         proposer |-> proposer, target |-> target,
                         wood_offered |-> offer[1], stone_offered |-> offer[2],
                         emerald_offered |-> offer[3],
                         wood_requested |-> request[1],
                         stone_requested |-> request[2],
                         emerald_requested |-> request[3]])
                 ELSE proposals
          /\ resources' =
                 IF code = 0
                 THEN [resources EXCEPT ![res].wood = @ - offer[1],
                                        ![res].stone = @ - offer[2],
                                        ![res].emerald = @ - offer[3]]
                 ELSE resources
          /\ lastTx' = Tx("propose_trade", proposer, code, 0, res, 0,
                          IF code = 0 THEN Len(proposals) + 1 ELSE 0, 0)
    /\ UNCHANGED <<matches, generators, clock>>

propose_trade(proposer, game, res, target, offer, request) ==
    /\ game \in 1..Len(matches)
    /\ res \in 1..Len(resources)
    /\ LET code == propose_trade_abort(game, res, proposer, target, offer)
       IN /\ proposals' =
                 IF code = 0
                 THEN Append(proposals,
                        [live |-> TRUE, game_id |-> game,
                         proposer |-> proposer, target |-> target,
                         wood_offered |-> offer[1], stone_offered |-> offer[2],
                         emerald_offered |-> offer[3],
                         wood_requested |-> request[1],
                         stone_requested |-> request[2],
                         emerald_requested |-> request[3]])
                 ELSE proposals
          /\ lastTx' = Tx("propose_trade", proposer, code, 0, res, 0,
                          IF code = 0 THEN Len(proposals) + 1 ELSE 0, 0)
    /\ UNCHANGED <<matches, resources, generators, clock>>

(***************************************************************************)
(* accept_trade                                                             *)
(***************************************************************************)
\* a transaction that names a deleted object never reaches the Move code
REJECTED == -1

\* mutant of accept_trade_abort: the sender is not compared with the target
accept_trade_abort_any_sender(p, pr, ar, accepter) ==
    IF ar.owner # accepter THEN E_NOT_OWNER
    ELSE IF pr.owner # p.proposer THEN E_NOT_OWNER
    ELSE IF pr.wood < p.wood_offered THEN E_INSUFFICIENT_RESOURCES
    ELSE IF pr.stone < p.stone_offered THEN E_INSUFFICIENT_RESOURCES
    ELSE IF pr.emerald < p.emerald_offered THEN E_INSUFFICIENT_RESOURCES
    ELSE IF ar.wood < p.wood_requested THEN E_INSUFFICIENT_RESOURCES
    ELSE IF ar.stone < p.stone_requested THEN E_INSUFFICIENT_RESOURCES
    ELSE IF ar.emerald < p.emerald_requested THEN E_INSUFFICIENT_RESOURCES
    ELSE 0

\* the variant that trusts the proposer to be as solvent as when proposing
accept_trade_abort_trusting(p, pr, ar, accepter) ==
    IF accepter # p.target THEN E_NOT_OWNER
    ELSE IF ar.owner # accepter THEN E_NOT_OWNER
    ELSE IF pr.owner # p.proposer THEN E_NOT_OWNER
    ELSE IF ar.wood < p.wood_requested THEN E_INSUFFICIENT_RESOURCES
    ELSE IF ar.stone < p.stone_requested THEN E_INSUFFICIENT_RESOURCES
    ELSE IF ar.emerald < p.emerald_requested THEN E_INSUFFICIENT_RESOURCES
    ELSE 0

accept_trade_abort(p, pr, ar, accepter) ==
    IF accepter # p.target THEN E_NOT_OWNER
    ELSE IF ar.owner # accepter THEN E_NOT_OWNER
    ELSE IF pr.owner # p.proposer THEN E_NOT_OWNER
    ELSE IF pr.wood < p.wood_offered THEN E_INSUFFICIENT_RESOURCES
    ELSE IF pr.stone < p.stone_offered THEN E_INSUFFICIENT_RESOURCES
    ELSE IF pr.emerald < p.emerald_offered THEN E_INSUFFICIENT_RESOURCES
    ELSE IF ar.wood < p.wood_requested THEN E_INSUFFICIENT_RESOURCES
    ELSE IF ar.stone < p.stone_requested THEN E_INSUFFICIENT_RESOURCES
    ELSE IF ar.emerald < p.emerald_requested THEN E_INSUFFICIENT_RESOURCES
    ELSE 0

\* the proposer's PlayerResources after the exchange
proposer_after(p, pr) ==
    [pr EXCEPT !.wood = pr.wood - p.wood_offered + p.wood_requested,
               !.stone = pr.stone - p.stone_offered + p.stone_requested,
               !.emerald = pr.emerald - p.emerald_offered + p.emerald_requested]

\* the accepter's PlayerResources after the exchange
accepter_after(p, ar) ==
    [ar EXCEPT !.wood = ar.wood + p.wood_offered - p.wood_requested,
               !.stone = ar.stone + p.stone_offered - p.stone_requested,
               !.emerald = ar.emerald + p.emerald_offered - p.emerald_requested]

\* the proposal is passed by value and its id deleted: the object is gone
\* mutant of delete_proposal: the object survives the call
delete_proposal_kept(ps, prop) == ps

delete_proposal(ps, prop) == [ps EXCEPT ![prop].live = FALSE]

\* two &mut PlayerResources of one call are two different objects
accept_trade(accepter, prop, pres, ares) ==
    /\ prop \in 1..Len(proposals)
    /\ pres \in 1..Len(resources)
    /\ ares \in 1..Len(resources)
    /\ pres # ares
    /\ LET p    == proposals[prop]
           code == IF ~p.live THEN REJECTED
                   ELSE accept_trade_abort(p, resources[pres], resources[ares], accepter)
       IN /\ resources' =
                 IF code = 0
                 THEN [resources EXCEPT ![pres] = proposer_after(p, @),
                                        ![ares] = accepter_after(p, @)]
                 ELSE resources
          /\ proposals' =
                 IF code = 0
                 THEN delete_proposal(proposals, prop)
                 ELSE proposals
          /\ lastTx' = Tx("accept_trade", accepter, code, 0, pres, ares, prop, 0)
    /\ UNCHANGED <<matches, generators, clock>>

(***************************************************************************)
(* cancel_trade                                                             *)
(***************************************************************************)
cancel_trade_abort(p, sender) ==
    IF ~(sender = p.proposer \/ sender = p.target) THEN E_NOT_OWNER ELSE 0

cancel_trade(sender, prop) ==
    /\ prop \in 1..Len(proposals)
    /\ LET p    == proposals[prop]
           code == IF ~p.live THEN REJECTED ELSE cancel_trade_abort(p, sender)
       IN /\ proposals' =
                 IF code = 0
                 THEN delete_proposal(proposals, prop)
                 ELSE proposals
          /\ lastTx' = Tx("cancel_trade", sender, code, 0, 0, 0, prop, 0)
    /\ UNCHANGED <<matches, resources, generators, clock>>

(***************************************************************************)
(* The chain clock                                                          *)
(***************************************************************************)
Tick(t) ==
    /\ t > clock
    /\ clock' = t
    /\ lastTx' = [NoTx EXCEPT !.op = "tick"]
    /\ UNCHANGED <<matches, resources, generators, proposals>>

(***************************************************************************)
(* The ledger                                                               *)
(***************************************************************************)
NoCall == [op |-> "none"]

LedgerInit ==
    /\ browser = BrowserInit
    /\ calls = <<>>
    /\ matches = <<>>
    /\ resources = <<>>
    /\ generators = <<>>
    /\ proposals = <<>>
    /\ clock = 0
    /\ lastTx = NoTx
    /\ holder = [gens |-> <<>>, props |-> <<>>]
    /\ suiGameService = [defined |-> TRUE, currentGameId |-> 0]
    /\ esService = [defined |-> FALSE, players |-> <<>>, items |-> <<>>,
                    agents |-> <<>>]
    /\ agents = <<>>
    /\ items = <<>>
    /\ uuids = 0
    /\ lastCall = NoCall

\* a created generator is a shared object: no address holds it
Shared == "shared"

CreateMatch ==
    /\ UNCHANGED <<browser, calls>>
    /\ Len(matches) < MaxMatches
    /\ \E s \in Senders, ps \in ParticipantLists, a \in InitialAmounts :
           create_match(s, ps, a[1], a[2], a[3])
    /\ UNCHANGED worldVars

CreateGenerators ==
    /\ UNCHANGED <<browser, calls>>
    /\ \E s \in Senders, g \in 1..MaxMatches, t \in ResourceTypes, ps \in PositionLists :
           /\ Len(generators) + Len(ps) <= MaxGens
           /\ create_generators(s, g, t, ps)
    /\ holder' = [holder EXCEPT !.gens =
                     @ \o [i \in 1..(Len(generators') - Len(generators)) |-> Shared]]
    /\ UNCHANGED <<suiGameService, esService, agents, items, uuids, lastCall>>

ClaimGenerator ==
    /\ UNCHANGED <<browser, calls>>
    /\ \E s \in Senders, g \in 1..MaxMatches, n \in 1..MaxGens : claim_generator(s, g, n)
    /\ UNCHANGED worldVars

ClaimResources ==
    /\ UNCHANGED <<browser, calls>>
    /\ \E s \in Senders, n \in 1..MaxGens, r \in 1..Len(resources) :
           claim_resources(s, n, r)
    /\ UNCHANGED worldVars

UpgradeGenerator ==
    /\ UNCHANGED <<browser, calls>>
    /\ \E s \in Senders, n \in 1..MaxGens, r \in 1..Len(resources) :
           upgrade_generator(s, n, r)
    /\ UNCHANGED worldVars

RecaptureGenerator ==
    /\ UNCHANGED <<browser, calls>>
    /\ \E s \in Senders, g \in 1..MaxMatches, n \in 1..MaxGens, r \in 1..Len(resources) :
           recapture_generator(s, g, n, r)
    /\ UNCHANGED worldVars

ProposeTrade ==
    /\ UNCHANGED <<browser, calls>>
    /\ Len(proposals) < MaxProposals
    /\ \E s \in Senders, g \in 1..MaxMatches, r \in 1..Len(resources), t \in Senders,
          o \in TradeOffers, q \in TradeRequests :
           propose_trade(s, g, r, t, o, q)
    /\ UNCHANGED worldVars

AcceptTrade ==
    /\ UNCHANGED <<browser, calls>>
    /\ \E s \in Senders, p \in 1..MaxProposals,
          pr \in 1..Len(resources), ar \in 1..Len(resources) :
           accept_trade(s, p, pr, ar)
    /\ UNCHANGED worldVars

CancelTrade ==
    /\ UNCHANGED <<browser, calls>>
    /\ \E s \in Senders, p \in 1..MaxProposals : cancel_trade(s, p)
    /\ UNCHANGED worldVars

ClockTick ==
    /\ UNCHANGED <<browser, calls>>
    /\ \E t \in ClockValues : Tick(t)
    /\ UNCHANGED worldVars

GenNext ==
    \/ CreateMatch
    \/ CreateGenerators
    \/ ClaimGenerator
    \/ ClaimResources
    \/ UpgradeGenerator
    \/ RecaptureGenerator
    \/ ClockTick

TradeNext ==
    \/ CreateMatch
    \/ ProposeTrade
    \/ AcceptTrade
    \/ CancelTrade

SpecGen == LedgerInit /\ [][GenNext]_vars
SpecTrade == LedgerInit /\ [][TradeNext]_vars

(***************************************************************************)
(* GameWorld (the in-memory world of the backend)                           *)
(***************************************************************************)
worldWidth == 100
worldHeight == 100

\* an absent optional field of a WorldItem
Undefined == "<undefined>"

\* JavaScript truthiness of an optional string
Truthy(v) == v # Undefined /\ v # ""

\* the n-th id handed out by uuidv4: never of the form gen_<objectId>
uuidv4(n) == "uuid-" \o ToString(n)

\* { id, ...item } stored under a fresh id, at the end of the Map
addItem(its, n, item) == Append(its, item @@ [id |-> uuidv4(n + 1)])

\* GameWorld.generateDefaultItems: three items are added to the Map
generateDefaultItems(its, n) ==
    LET tree == [name |-> "Ancient Tree", position |-> <<20, 60>>,
                 imageUrl |-> "/assets/tree.png", spriteSheet |-> Undefined,
                 size |-> 8, interactive |-> FALSE,
                 description |-> "A massive ancient oak tree",
                 collectedBy |-> Undefined]
        chest == [name |-> "Treasure Chest", position |-> <<30, 30>>,
                  imageUrl |-> "/assets/chest.png", spriteSheet |-> Undefined,
                  size |-> 5, interactive |-> TRUE,
                  description |-> "A mysterious treasure chest...",
                  collectedBy |-> Undefined]
        crystal == [name |-> "Magic Crystal", position |-> <<70, 40>>,
                    imageUrl |-> Undefined, spriteSheet |-> "/assets/crystal.png",
                    size |-> 3, interactive |-> TRUE,
                    description |-> "A glowing magic crystal",
                    collectedBy |-> Undefined]
    IN [items |-> addItem(addItem(addItem(its, n, tree), n + 1, chest), n + 2, crystal),
        uuids |-> n + 3]

\* GameWorld.removeItem: the Map without the item
GameWorld_removeItem(its, itemId) == SelectSeq(its, LAMBDA it : it.id # itemId)

\* GameWorld.collectItem: the item is marked, unless it is collected already
collectItem(its, itemId, playerId) ==
    [i \in 1..Len(its) |->
        IF its[i].id = itemId /\ ~Truthy(its[i].collectedBy)
        THEN [collectedAt |-> "now"] @@ [its[i] EXCEPT !.collectedBy = playerId]
        ELSE its[i]]

\* the items that are not collected, in Map order
getAllItems(its) == SelectSeq(its, LAMBDA it : ~Truthy(it.collectedBy))

(***************************************************************************)
(* SuiGameService: reading the ledger through the RPC client.  Every read   *)
(* is awaited: the operators below give what a read answers when its        *)
(* response is processed, from the ledger as it is then.                    *)
(***************************************************************************)
getResourceName(resourceType) ==
    CASE resourceType = 0 -> "Wood"
      [] resourceType = 1 -> "Stone"
      [] resourceType = 2 -> "Emerald"
      [] OTHER -> "Unknown"

\* String.prototype.toLowerCase on the resource names
toLowerCaseName(name) ==
    CASE name = "Wood" -> "wood"
      [] name = "Stone" -> "stone"
      [] name = "Emerald" -> "emerald"
      [] OTHER -> "unknown"

\* String.prototype.slice(0, 8) on the addresses of the model
slice8(address) ==
    CASE address = "0xaaaaaa01" -> "0xaaaaaa"
      [] address = "0xbbbbbb02" -> "0xbbbbbb"
      [] address = "0xcccccc03" -> "0xcccccc"
      [] address = "0xdddddd04" -> "0xdddddd"
      [] OTHER -> address

\* the object id of generator g as the RPC client renders it
objectIdOf(g) == "0xe" \o ToString(g)

\* one entry of getAllGenerators, from the fields of generator g
GeneratorInfo(g) ==
    [objectId |-> objectIdOf(g),
     gameId |-> generators[g].game_id,
     resourceType |-> generators[g].resource_type,
     x |-> generators[g].x,
     y |-> generators[g].y,
     owner |-> generators[g].owner,
     level |-> generators[g].level,
     generationRate |-> generators[g].generation_rate,
     maxCap |-> generators[g].max_cap,
     unclaimed |-> generators[g].unclaimed,
     lastClaimTime |-> generators[g].last_claim_time,
     lastRecapturedBy |-> generators[g].last_recaptured_by,
     lastRecapturedFrom |-> generators[g].last_recaptured_from]

\* getOwnedObjects(owner, Generator), kept when game_id is the match asked for
RECURSIVE ownedGenerators(_, _, _)
ownedGenerators(owner, gameId, g) ==
    IF g > Len(generators) THEN <<>>
    ELSE (IF holder.gens[g] = owner /\ generators[g].game_id = gameId
          THEN <<GeneratorInfo(g)>> ELSE <<>>)
         \o ownedGenerators(owner, gameId, g + 1)

\* a call parked at the first await of getAllGenerators(gameId) or of
\* getAllTradeProposals(): the read of the match object
getObject(c, fn, gameId) ==
    [c EXCEPT !.fn = fn, !.pc = "getObject", !.gameId = gameId,
              !.participants = <<>>, !.k = 0, !.gens = <<>>]

\* getAllGenerators resumed with the response it awaits.  A read that throws
\* leaves the inner try: what was pushed before it is returned.  pc is
\* "return" when the enumeration is over.
getAllGenerators(c, threw) ==
    IF c.pc = "getObject"
    THEN IF \/ threw
            \/ c.gameId \notin 1..Len(matches)
            \/ matches[c.gameId].participants = <<>>
         THEN [c EXCEPT !.pc = "return"]
         ELSE [c EXCEPT !.pc = "getOwnedObjects",
                        !.participants = matches[c.gameId].participants,
                        !.k = 1]
    ELSE IF threw THEN [c EXCEPT !.pc = "return"]
    ELSE LET gens == c.gens \o ownedGenerators(c.participants[c.k], c.gameId, 1)
         IN IF c.k = Len(c.participants)
            THEN [c EXCEPT !.gens = gens, !.pc = "return"]
            ELSE [c EXCEPT !.gens = gens, !.k = c.k + 1]

\* the first PlayerResources object listed under address, 0 when none is
firstResources(address) ==
    LET owned == {r \in 1..Len(resources) : resources[r].owner = address}
    IN IF owned = {} THEN 0 ELSE CHOOSE r \in owned : \A q \in owned : r <= q

\* threw: the listing threw; found: the result is not null
getPlayerResources(address, threw) ==
    LET r == firstResources(address)
    IN IF threw THEN [threw |-> TRUE, found |-> FALSE]
       ELSE IF r = 0 THEN [threw |-> FALSE, found |-> FALSE]
       ELSE [threw |-> FALSE, found |-> TRUE,
             objectId |-> "0xf" \o ToString(r),
             wood |-> resources[r].wood,
             stone |-> resources[r].stone,
             emerald |-> resources[r].emerald]

TradeProposalInfo(p) ==
    [objectId |-> "0xd" \o ToString(p),
     gameId |-> proposals[p].game_id,
     proposer |-> proposals[p].proposer,
     target |-> proposals[p].target,
     woodOffered |-> proposals[p].wood_offered,
     stoneOffered |-> proposals[p].stone_offered,
     emeraldOffered |-> proposals[p].emerald_offered,
     woodRequested |-> proposals[p].wood_requested,
     stoneRequested |-> proposals[p].stone_requested,
     emeraldRequested |-> proposals[p].emerald_requested]

\* getOwnedObjects(owner, TradeProposal) from the p-th proposal on, without
\* the ones already seen
RECURSIVE ownedProposals(_, _, _)
ownedProposals(owner, seen, p) ==
    IF p > Len(proposals) THEN <<>>
    ELSE (IF /\ proposals[p].live
             /\ p <= Len(holder.props)
             /\ holder.props[p] = owner
             /\ \A i \in 1..Len(seen) : seen[i].objectId # TradeProposalInfo(p).objectId
          THEN <<TradeProposalInfo(p)>> ELSE <<>>)
         \o ownedProposals(owner, seen, p + 1)

\* getAllTradeProposals resumed with the response it awaits; the proposals
\* pushed so far are in c.gens.  A read that throws anywhere leaves the
\* outer catch, which returns [].
getAllTradeProposals(c, threw) ==
    IF threw THEN [c EXCEPT !.gens = <<>>, !.pc = "return"]
    ELSE IF c.pc = "getObject"
    THEN IF \/ c.gameId \notin 1..Len(matches)
            \/ matches[c.gameId].participants = <<>>
         THEN [c EXCEPT !.pc = "return"]
         ELSE [c EXCEPT !.pc = "getOwnedObjects",
                        !.participants = matches[c.gameId].participants,
                        !.k = 1]
    ELSE LET props == c.gens \o ownedProposals(c.participants[c.k], c.gens, 1)
         IN IF c.k = Len(c.participants)
            THEN [c EXCEPT !.gens = props, !.pc = "return"]
            ELSE [c EXCEPT !.gens = props, !.k = c.k + 1]

\* the variant that hands every enumerated proposal to every agent
getTradeProposalsForAgent_all(allProposals, agentAddress) ==
    allProposals

\* the filter of getTradeProposalsForAgent over what getAllTradeProposals
\* returned
getTradeProposalsForAgent(allProposals, agentAddress) ==
    SelectSeq(allProposals,
              LAMBDA p : p.proposer = agentAddress \/ p.target = agentAddress)

\* threw: the read threw; found: the result is not null
getGameMatch(gameId, threw) ==
    IF threw THEN [threw |-> TRUE, found |-> FALSE]
    ELSE IF gameId \notin 1..Len(matches) THEN [threw |-> FALSE, found |-> FALSE]
    ELSE [threw |-> FALSE, found |-> TRUE,
          creator |-> matches[gameId].creator,
          participants |-> matches[gameId].participants]

(***************************************************************************)
(* SuiGameService.syncGeneratorsToWorld                                     *)
(***************************************************************************)
ownerName(gen) ==
    IF gen.owner = "0x0" THEN "Unclaimed"
    ELSE "Owner: " \o slice8(gen.owner) \o "..."

\* the object literal a generator is shown as: it has no id and no imageUrl
generatorItem(gen) ==
    LET resourceName == getResourceName(gen.resourceType)
    IN [name |-> resourceName \o " Generator",
        position |-> <<gen.x, gen.y>>,
        spriteSheet |-> "/assets/generator_" \o toLowerCaseName(resourceName) \o ".png",
        size |-> 6,
        interactive |-> TRUE,
        description |-> "Level " \o ToString(gen.level) \o " " \o resourceName
                        \o " Generator. " \o ownerName(gen) \o ". Rate: "
                        \o ToString(gen.generationRate) \o "/min. Unclaimed: "
                        \o ToString(gen.unclaimed) \o "/" \o ToString(gen.maxCap),
        collectedBy |-> IF gen.owner # "0x0" THEN gen.owner ELSE Undefined]

\* getAllItems().find(item => item.id === `gen_${gen.objectId}`): the index
\* in the Map of the first match, 0 when there is none
existingItem(its, gen) ==
    LET found == {i \in 1..Len(its) :
                     /\ ~Truthy(its[i].collectedBy)
                     /\ its[i].id = "gen_" \o gen.objectId}
    IN IF found = {} THEN 0 ELSE CHOOSE i \in found : \A j \in found : i <= j

\* Object.assign(existingItem, item): the keys of the source are written,
\* the other keys of the target stay
objectAssign(target, source) == source @@ target

\* the variant that rebuilds the projections: the items of size 6 are
\* dropped before the first generator is handled
RECURSIVE syncLoop_rebuild(_, _, _, _)
syncLoop_rebuild(its, n, gens, k) ==
    IF k > Len(gens) THEN [items |-> its, uuids |-> n, k |-> k, awaits |-> FALSE]
    ELSE LET kept == IF k = 1 THEN SelectSeq(its, LAMBDA it : it.size # 6) ELSE its
         IN IF esService.defined
            THEN [items |-> addItem(kept, n, generatorItem(gens[k])),
                  uuids |-> n + 1, k |-> k + 1, awaits |-> TRUE]
            ELSE syncLoop_rebuild(addItem(kept, n, generatorItem(gens[k])),
                                  n + 1, gens, k + 1)

\* the for loop from the k-th enumerated generator on, as far as it runs
\* without being suspended: an existing projection is assigned to and the
\* loop goes on; a missing one is added, and with an index the loop is
\* suspended at the saveItem that addItem awaits.  Without an index addItem
\* awaits nothing, and the loop goes on before anything else runs.
RECURSIVE syncLoop(_, _, _, _)
syncLoop(its, n, gens, k) ==
    IF k > Len(gens) THEN [items |-> its, uuids |-> n, k |-> k, awaits |-> FALSE]
    ELSE LET item == generatorItem(gens[k])
             i    == existingItem(its, gens[k])
         IN IF i # 0
            THEN syncLoop([its EXCEPT ![i] = objectAssign(@, item)], n, gens, k + 1)
            ELSE IF esService.defined
            THEN [items |-> addItem(its, n, item), uuids |-> n + 1, k |-> k + 1,
                  awaits |-> TRUE]
            ELSE syncLoop(addItem(its, n, item), n + 1, gens, k + 1)

\* syncGeneratorsToWorld called inside the call c while gameId is the
\* active match: it returns at once without one, and awaits the enumeration
\* otherwise
syncGeneratorsToWorld(c, gameId) ==
    IF gameId = 0 THEN [c EXCEPT !.fn = "syncGeneratorsToWorld", !.pc = "return",
                                 !.gameId = 0, !.gens = <<>>]
    ELSE getObject(c, "syncGeneratorsToWorld", gameId)

(***************************************************************************)
(* WorldContextServiceExtended: distances and directions                    *)
(***************************************************************************)
Abs(n) == IF n < 0 THEN -n ELSE n

\* the square of calculateDistance(pos1, pos2)
distanceSquared(pos1, pos2) ==
    (pos2[1] - pos1[1]) * (pos2[1] - pos1[1])
        + (pos2[2] - pos1[2]) * (pos2[2] - pos1[2])

\* distance <= range, on the squares (range is not negative)
withinRange(pos1, pos2, range) == distanceSquared(pos1, pos2) <= range * range

\* Math.round(Math.sqrt(n)): the k with k - 0.5 <= sqrt(n) < k + 0.5
roundSqrt(n) ==
    CHOOSE k \in 0..(n + 1) :
        /\ (k = 0 \/ (2 * k - 1) * (2 * k - 1) <= 4 * n)
        /\ 4 * n < (2 * k + 1) * (2 * k + 1)

\* Math.round(calculateDistance(pos1, pos2))
roundedDistance(pos1, pos2) == roundSqrt(distanceSquared(pos1, pos2))

\* Math.atan2(dy, dx) * (180 / Math.PI) >= t / 10 for the eight sector
\* bounds t, decided exactly on the integers: tan 22.5 = sqrt(2) - 1 and
\* tan 67.5 = sqrt(2) + 1.  Math.atan2(0, 0) is 0, the angle of (1, 0).
angleAtLeast(dy0, dx0, t) ==
    LET dx == IF dx0 = 0 /\ dy0 = 0 THEN 1 ELSE dx0
        dy == dy0
        ax == Abs(dx)
        ay == Abs(dy)
        \* |angle to the x axis| < 22.5
        shallow == (ay + ax) * (ay + ax) < 2 * ax * ax
        \* |angle to the x axis| > 67.5
        steep == ay > ax /\ (ay - ax) * (ay - ax) > 2 * ax * ax
        \* angle in (0, 180]
        upper == dy > 0 \/ (dy = 0 /\ dx < 0)
        \* angle in (-180, 0)
        lower == dy < 0
    IN CASE t = 225   -> upper /\ ~(dx > 0 /\ shallow)
         [] t = 675   -> upper /\ (dx <= 0 \/ steep)
         [] t = 1125  -> upper /\ dx < 0 /\ ~steep
         [] t = 1575  -> upper /\ dx < 0 /\ shallow
         [] t = -225  -> ~lower \/ (dx > 0 /\ shallow)
         [] t = -675  -> ~lower \/ (dx > 0 /\ ~steep)
         [] t = -1125 -> ~lower \/ dx > 0 \/ steep
         [] t = -1575 -> ~lower \/ ~(dx < 0 /\ shallow)

getDirection(from, to) ==
    LET dx == to[1] - from[1]
        dy == to[2] - from[2]
        ge(t) == angleAtLeast(dy, dx, t)
        lt(t) == ~angleAtLeast(dy, dx, t)
    IN IF ge(-225) /\ lt(225) THEN "to the East"
       ELSE IF ge(225) /\ lt(675) THEN "to the Southeast"
       ELSE IF ge(675) /\ lt(1125) THEN "to the South"
       ELSE IF ge(1125) /\ lt(1575) THEN "to the Southwest"
       ELSE IF ge(1575) \/ lt(-1575) THEN "to the West"
       ELSE IF ge(-1575) /\ lt(-1125) THEN "to the Northwest"
       ELSE IF ge(-1125) /\ lt(-675) THEN "to the North"
       ELSE IF ge(-675) /\ lt(-225) THEN "to the Northeast"
       ELSE "nearby"

\* the positions getDirection is asked about
MaxCoord == 4
Grid == (0..MaxCoord) \X (0..MaxCoord)

\* one call of getDirection, as its callers in the section builders make it
GetDirection ==
    /\ UNCHANGED <<browser, calls>>
    /\ \E from \in Grid, to \in Grid :
           lastCall' = [op |-> "getDirection", from |-> from, to |-> to,
                        result |-> getDirection(from, to)]
    /\ UNCHANGED <<holder, suiGameService, esService, agents, items, uuids>>
    /\ UNCHANGED ledgerVars

DirNext == GetDirection

SpecDir == LedgerInit /\ [][DirNext]_vars


(***************************************************************************)
(* GameWorld and the player index: what is in range                         *)
(***************************************************************************)
getAgentsInRange(position, range) ==
    SelectSeq(agents, LAMBDA a : withinRange(position, a.position, range))

getItemsInRange(position, range) ==
    SelectSeq(getAllItems(items), LAMBDA it : withinRange(position, it.position, range))

\* threw: the search threw
getAllPlayers(threw) ==
    IF threw THEN [threw |-> TRUE, players |-> <<>>]
    ELSE [threw |-> FALSE, players |-> esService.players]

\* the filter of getGeneratorsNearPosition over what getAllGenerators
\* returned; position is the one the call was made with
getGeneratorsNearPosition(allGenerators, position, range) ==
    SelectSeq(allGenerators,
              LAMBDA gen : withinRange(position, <<gen.x, gen.y>>, range))

(***************************************************************************)
(* WorldContextServiceExtended: the sections.  A string is the sequence of  *)
(* its lines, so join("\n") is concatenation and the empty string is <<"">>. *)
(* A section that awaits a read is given what the read answered.            *)
(***************************************************************************)
\* "(<rounded distance> units <direction>)"
unitsAway(from, to) ==
    "(" \o ToString(roundedDistance(from, to)) \o " units "
        \o getDirection(from, to) \o ")"

\* a read that was not made, or answered null
NoResources == [threw |-> FALSE, found |-> FALSE]

\* buildSelfInfo before its await: the lines pushed from the agent
selfParts(agent) ==
    <<"YOUR CURRENT STATUS:",
      "- Name: " \o agent.name,
      "- Description: " \o agent.description,
      "- Current Position: (" \o ToString(agent.position[1]) \o ", "
          \o ToString(agent.position[2]) \o ")",
      "- Your Sui Wallet Address: " \o agent.suiAddress>>

\* buildSelfInfo after it: resources is what getPlayerResources answered
buildSelfInfo(parts, res) ==
    parts
    \o (IF ~res.threw /\ res.found
        THEN <<"- Your Resources: " \o ToString(res.wood) \o " Wood, "
                 \o ToString(res.stone) \o " Stone, "
                 \o ToString(res.emerald) \o " Emerald">>
        ELSE <<>>)
    \o <<"- You are currently in the game world. Remember to roleplay as your character.">>

\* the variant that does not leave the requesting agent out
buildNearbyAgentsInfo_withSelf(agent, range) ==
    LET nearbyAgents == getAgentsInRange(agent.position, range)
        agentDescriptions ==
            [i \in 1..Len(nearbyAgents) |->
                "- " \o nearbyAgents[i].name \o " ("
                     \o slice8(nearbyAgents[i].suiAddress) \o "...): "
                     \o nearbyAgents[i].description \o " "
                     \o unitsAway(agent.position, nearbyAgents[i].position)]
    IN IF Len(nearbyAgents) = 0
       THEN <<"NEARBY NPCs:", "- None within visible range">>
       ELSE <<"NEARBY NPCs:">> \o agentDescriptions

buildNearbyAgentsInfo(agent, range) ==
    LET nearbyAgents == SelectSeq(getAgentsInRange(agent.position, range),
                                  LAMBDA a : a.id # agent.id)
        agentDescriptions ==
            [i \in 1..Len(nearbyAgents) |->
                "- " \o nearbyAgents[i].name \o " ("
                     \o slice8(nearbyAgents[i].suiAddress) \o "...): "
                     \o nearbyAgents[i].description \o " "
                     \o unitsAway(agent.position, nearbyAgents[i].position)]
    IN IF Len(nearbyAgents) = 0
       THEN <<"NEARBY NPCs:", "- None within visible range">>
       ELSE <<"NEARBY NPCs:">> \o agentDescriptions

buildNearbyItemsInfo(agent, range) ==
    LET nearbyItems == getItemsInRange(agent.position, range)
        itemDescriptions ==
            [i \in 1..Len(nearbyItems) |->
                "- " \o nearbyItems[i].name
                     \o (IF nearbyItems[i].interactive THEN " [Interactive]" ELSE "")
                     \o ": "
                     \o (IF Truthy(nearbyItems[i].description)
                         THEN nearbyItems[i].description ELSE "No description")
                     \o " " \o unitsAway(agent.position, nearbyItems[i].position)]
    IN IF Len(nearbyItems) = 0
       THEN <<"NEARBY ITEMS:", "- None within visible range">>
       ELSE <<"NEARBY ITEMS:">> \o itemDescriptions

\* the players of the search that are in range of the agent, each with the
\* distance and direction its async mapper computes before it awaits
nearbyPlayers(agent, allPlayers, range) ==
    LET near == SelectSeq(allPlayers,
                          LAMBDA p : withinRange(agent.position, p.position, range))
    IN [i \in 1..Len(near) |->
           [name |-> near[i].name, suiAddress |-> near[i].suiAddress,
            away |-> unitsAway(agent.position, near[i].position)]]

\* resourceInfo of one player, from what getPlayerResources answered
resourceInfo(res) ==
    IF ~res.threw /\ res.found
    THEN " [Resources: " \o ToString(res.wood) \o "W, "
            \o ToString(res.stone) \o "S, " \o ToString(res.emerald) \o "E]"
    ELSE ""

\* buildNearbyPlayersInfo once Promise.all has every description
buildNearbyPlayersInfo(players, info) ==
    IF Len(players) = 0
    THEN <<"NEARBY PLAYERS:", "- No players within visible range">>
    ELSE <<"NEARBY PLAYERS:">>
         \o [i \in 1..Len(players) |->
                "- " \o (IF Truthy(players[i].name) THEN players[i].name
                         ELSE "Adventurer")
                     \o info[i] \o " " \o players[i].away]

\* getGeneratorsNearPosition never throws: getAllGenerators catches what its
\* reads throw, so the catch of this section is never entered
\* the variant that has no tag of its own for the requesting agent's generators
buildNearbyGeneratorsInfo_noOwnTag(agent, gens) ==
    LET ownerInfo(gen) ==
            IF gen.owner = "0x0" THEN "[UNCLAIMED - You can claim this!]"
            ELSE "[Owned by " \o slice8(gen.owner) \o "...]"
        statusInfo(gen) ==
            IF gen.owner # "0x0"
            THEN " Level " \o ToString(gen.level) \o ", Rate: "
                   \o ToString(gen.generationRate) \o "/min, Unclaimed: "
                   \o ToString(gen.unclaimed) \o "/" \o ToString(gen.maxCap)
            ELSE ""
        generatorDescriptions ==
            [i \in 1..Len(gens) |->
                "- " \o getResourceName(gens[i].resourceType) \o " Generator "
                     \o ownerInfo(gens[i]) \o statusInfo(gens[i]) \o " "
                     \o unitsAway(agent.position, <<gens[i].x, gens[i].y>>)]
    IN IF Len(gens) = 0
       THEN <<"NEARBY GENERATORS:", "- None within visible range">>
       ELSE <<"NEARBY GENERATORS:">> \o generatorDescriptions \o
            <<"", "ACTIONS AVAILABLE:",
              "- Claim unclaimed generators using /claim_generator",
              "- Claim resources from your generators using /claim_resources",
              "- Recapture enemy generators using /recapture_generator">>

\* buildNearbyGeneratorsInfo after its await: gens is what
\* getGeneratorsNearPosition returned
buildNearbyGeneratorsInfo(agent, gens) ==
    LET ownerInfo(gen) ==
            IF gen.owner = "0x0" THEN "[UNCLAIMED - You can claim this!]"
            ELSE IF gen.owner = agent.suiAddress THEN "[OWNED BY YOU]"
            ELSE "[Owned by " \o slice8(gen.owner) \o "...]"
        statusInfo(gen) ==
            IF gen.owner # "0x0"
            THEN " Level " \o ToString(gen.level) \o ", Rate: "
                   \o ToString(gen.generationRate) \o "/min, Unclaimed: "
                   \o ToString(gen.unclaimed) \o "/" \o ToString(gen.maxCap)
            ELSE ""
        generatorDescriptions ==
            [i \in 1..Len(gens) |->
                "- " \o getResourceName(gens[i].resourceType) \o " Generator "
                     \o ownerInfo(gens[i]) \o statusInfo(gens[i]) \o " "
                     \o unitsAway(agent.position, <<gens[i].x, gens[i].y>>)]
    IN IF Len(gens) = 0
       THEN <<"NEARBY GENERATORS:", "- None within visible range">>
       ELSE <<"NEARBY GENERATORS:">> \o generatorDescriptions \o
            <<"", "ACTIONS AVAILABLE:",
              "- Claim unclaimed generators using /claim_generator",
              "- Claim resources from your generators using /claim_resources",
              "- Recapture enemy generators using /recapture_generator">>

\* the variant without the test for a missing ledger client
buildResourcesInfo_unguarded(defined, res) ==
    IF res.threw
    THEN <<"YOUR RESOURCES:", "- Error loading resources">>
    ELSE IF ~res.found
    THEN <<"YOUR RESOURCES:", "- Not yet initialized (join a game first)">>
    ELSE <<"YOUR RESOURCES:",
           "- Wood: " \o ToString(res.wood),
           "- Stone: " \o ToString(res.stone),
           "- Emerald: " \o ToString(res.emerald),
           "- Resource Object ID: " \o res.objectId>>

\* buildResourcesInfo: defined says whether there is a ledger client, res is
\* what getPlayerResources answered when there is one
buildResourcesInfo(defined, res) ==
    IF ~defined
    THEN <<"YOUR RESOURCES:", "- Resource tracking not available">>
    ELSE IF res.threw
    THEN <<"YOUR RESOURCES:", "- Error loading resources">>
    ELSE IF ~res.found
    THEN <<"YOUR RESOURCES:", "- Not yet initialized (join a game first)">>
    ELSE <<"YOUR RESOURCES:",
           "- Wood: " \o ToString(res.wood),
           "- Stone: " \o ToString(res.stone),
           "- Emerald: " \o ToString(res.emerald),
           "- Resource Object ID: " \o res.objectId>>

\* getTradeProposalsForAgent never throws: getAllTradeProposals catches what
\* its reads throw, so the catch of this section is never entered
\* buildTradeProposalsInfo after its await: props is what
\* getTradeProposalsForAgent returned
buildTradeProposalsInfo(agent, props) ==
    LET describe(proposal) ==
            LET isProposer == proposal.proposer = agent.suiAddress
                otherParty == IF isProposer THEN proposal.target
                              ELSE proposal.proposer
                role == IF isProposer THEN "YOU PROPOSED" ELSE "PROPOSED TO YOU"
                offering == ToString(proposal.woodOffered) \o "W, "
                              \o ToString(proposal.stoneOffered) \o "S, "
                              \o ToString(proposal.emeraldOffered) \o "E"
                requesting == ToString(proposal.woodRequested) \o "W, "
                                \o ToString(proposal.stoneRequested) \o "S, "
                                \o ToString(proposal.emeraldRequested) \o "E"
            IN "- [" \o role \o "] Trade with " \o slice8(otherParty)
                  \o "...: Offering " \o offering \o " for " \o requesting
                  \o " (ID: " \o slice8(proposal.objectId) \o "...)"
    IN IF Len(props) = 0
       THEN <<"TRADE PROPOSALS:", "- No pending trade proposals">>
       ELSE <<"TRADE PROPOSALS:">>
            \o [i \in 1..Len(props) |-> describe(props[i])]
            \o <<"", "ACTIONS AVAILABLE:",
                 "- Propose trades using /propose_trade",
                 "- Accept incoming trades using /accept_trade",
                 "- Cancel your proposals using /cancel_trade">>

\* buildWorldInfo before its awaits: the lines pushed from the world
worldParts ==
    <<"WORLD INFORMATION:",
      "- World Size: " \o ToString(worldWidth) \o "x"
          \o ToString(worldHeight) \o " units",
      "- Total NPCs in world: " \o ToString(Len(agents)),
      "- Total items in world: " \o ToString(Len(getAllItems(items)))>>

\* buildWorldInfo at its end
buildWorldInfo(parts) ==
    parts \o
    <<"- Remember: You can move around, interact with items, manage generators, trade resources, and converse with players and other NPCs">>

\* Array.prototype.join("\n\n") from the k-th section on: a blank line between
RECURSIVE joinSections(_, _)
joinSections(sections, k) ==
    IF k > Len(sections) THEN <<>>
    ELSE IF k = Len(sections) THEN sections[k]
    ELSE sections[k] \o <<"">> \o joinSections(sections, k + 1)

\* the variant that puts the items before the players
fullContext_itemsFirst(c) ==
    LET sections == << <<"=== CURRENT CONTEXT ===">>, c.selfInfo, c.resourcesInfo,
                       c.nearbyAgents, c.nearbyItems, c.nearbyPlayers,
                       c.nearbyGenerators, c.tradeProposals, c.worldInfo,
                       <<"===================">> >>
        kept == SelectSeq(sections, LAMBDA section : section # <<"">>)
    IN IF kept = <<>> THEN <<"">> ELSE joinSections(kept, 1)

fullContext(c) ==
    LET sections == << <<"=== CURRENT CONTEXT ===">>, c.selfInfo, c.resourcesInfo,
                       c.nearbyAgents, c.nearbyPlayers, c.nearbyGenerators,
                       c.nearbyItems, c.tradeProposals, c.worldInfo,
                       <<"===================">> >>
        kept == SelectSeq(sections, LAMBDA section : section # <<"">>)
    IN IF kept = <<>> THEN <<"">> ELSE joinSections(kept, 1)

(***************************************************************************)
(* SuiGameService.shouldRecaptureGenerator.  The strings it searches are    *)
(* sequences of one-character strings.                                      *)
(***************************************************************************)
UpperCase ==
    <<"A", "B", "C", "D", "E", "F", "G", "H", "I", "J", "K", "L", "M",
      "N", "O", "P", "Q", "R", "S", "T", "U", "V", "W", "X", "Y", "Z">>
LowerCase ==
    <<"a", "b", "c", "d", "e", "f", "g", "h", "i", "j", "k", "l", "m",
      "n", "o", "p", "q", "r", "s", "t", "u", "v", "w", "x", "y", "z">>

\* String.prototype.toLowerCase
toLowerCase(s) ==
    [i \in 1..Len(s) |->
        IF \E n \in 1..Len(UpperCase) : UpperCase[n] = s[i]
        THEN LowerCase[CHOOSE n \in 1..Len(UpperCase) : UpperCase[n] = s[i]]
        ELSE s[i]]

\* String.prototype.slice(0, end)
slice(s, end) == SubSeq(s, 1, IF end < Len(s) THEN end ELSE Len(s))

\* String.prototype.includes
includes(s, sub) ==
    \E i \in 0..(Len(s) - Len(sub)) : SubSeq(s, i + 1, i + Len(sub)) = sub

hostileKeywords ==
    <<<<"h", "o", "s", "t", "i", "l", "e">>,
      <<"e", "n", "e", "m", "y">>,
      <<"u", "n", "f", "r", "i", "e", "n", "d", "l", "y">>,
      <<"a", "t", "t", "a", "c", "k", "e", "d">>,
      <<"s", "t", "o", "l", "e">>,
      <<"a", "g", "g", "r", "e", "s", "s", "i", "v", "e">>,
      <<"t", "h", "r", "e", "a", "t">>>>

\* Array.prototype.some over the keywords, from the k-th on
RECURSIVE some(_, _, _)
some(memoryLower, ownerMention, k) ==
    IF k > Len(hostileKeywords) THEN FALSE
    ELSE IF includes(memoryLower, hostileKeywords[k])
            /\ includes(memoryLower, slice(ownerMention, 8))
         THEN TRUE
         ELSE some(memoryLower, ownerMention, k + 1)

\* the variant that skips the test for an unclaimed generator
shouldRecaptureGenerator_unclaimed(generator, agentAddress, agentMemory) ==
    IF generator.owner = agentAddress THEN FALSE
    ELSE some(toLowerCase(agentMemory), toLowerCase(generator.owner), 1)

shouldRecaptureGenerator(generator, agentAddress, agentMemory) ==
    IF generator.owner = agentAddress THEN FALSE
    ELSE IF generator.owner = <<"0", "x", "0">> THEN FALSE
    ELSE LET ownerMention == toLowerCase(generator.owner)
             memoryLower == toLowerCase(agentMemory)
         IN some(memoryLower, ownerMention, 1)

\* the pieces an agent's memory is put together from
MaxTokens == 2
MemoryTokens ==
    {<<"a", "t", "t", "a", "c", "k", "e", "d">>,
     <<"E", "N", "E", "M", "Y">>,
     <<"0", "x", "a", "b", "c", "d", "1", "2">>,
     <<"0", "x", "A", "B", "C", "D", "1", "2">>,
     <<"0", "x", "a", "b", "c", "d", "1">>,
     <<" ", "b", "y", " ">>,
     <<"0", "x", "0", " ">>}
RECURSIVE Memories(_)
Memories(n) ==
    IF n = 0 THEN {<<>>}
    ELSE Memories(n - 1)
         \cup {m \o t : m \in Memories(n - 1), t \in MemoryTokens}
OwnerAddrs ==
    {<<"0", "x", "0">>,
     <<"0", "x", "A", "b", "C", "d", "1", "2", "3", "4">>,
     <<"0", "x", "a", "b", "c", "d", "1", "2", "3", "4">>,
     <<"0", "x", "a", "b">>}
ActorAddrs ==
    {<<"0", "x", "A", "b", "C", "d", "1", "2", "3", "4">>, <<"0", "x", "f", "f", "f", "f", "0", "0", "0", "0">>}

\* one decision of shouldRecaptureGenerator
ShouldRecapture ==
    /\ UNCHANGED <<browser, calls>>
    /\ \E owner \in OwnerAddrs, actor \in ActorAddrs, memory \in Memories(MaxTokens) :
           lastCall' = [op |-> "shouldRecaptureGenerator", owner |-> owner,
                        agentAddress |-> actor, agentMemory |-> memory,
                        result |-> shouldRecaptureGenerator([owner |-> owner],
                                                            actor, memory)]
    /\ UNCHANGED <<holder, suiGameService, esService, agents, items, uuids>>
    /\ UNCHANGED ledgerVars

RecaptureNext == ShouldRecapture

SpecRecapture == LedgerInit /\ [][RecaptureNext]_vars

(***************************************************************************)
(* The whole ledger: every entry function, over two matches whose           *)
(* participant lists differ.                                                *)
(***************************************************************************)
MaxLedgerMatches == 2
MaxLedgerGens == 1
MaxLedgerProposals == 1
\* the participants of the first and of the later matches
LedgerParticipantLists == <<<<"0xaaaaaa01", "0xbbbbbb02">>, <<"0xcccccc03", "0xaaaaaa01">>>>
LedgerClockValues == {90000}

LCreateMatch ==
    /\ UNCHANGED <<browser, calls>>
    /\ Len(matches) < MaxLedgerMatches
    /\ LET ps == LedgerParticipantLists[IF Len(matches) = 0 THEN 1 ELSE 2]
       IN create_match(ps[1], ps, 100, 100, 50)
    /\ UNCHANGED worldVars

LCreateGenerators ==
    /\ UNCHANGED <<browser, calls>>
    /\ Len(generators) < MaxLedgerGens
    /\ \E g \in 1..Len(matches) :
           create_generators(matches[g].creator, g, WOOD, << <<10, 20>> >>)
    /\ holder' = [holder EXCEPT !.gens =
                     @ \o [i \in 1..(Len(generators') - Len(generators)) |-> Shared]]
    /\ UNCHANGED <<suiGameService, esService, agents, items, uuids, lastCall>>

LClaimGenerator ==
    /\ UNCHANGED <<browser, calls>>
    /\ \E s \in Senders, g \in 1..Len(matches), n \in 1..Len(generators) :
           claim_generator(s, g, n)
    /\ UNCHANGED worldVars

LClaimResources ==
    /\ UNCHANGED <<browser, calls>>
    /\ \E n \in 1..Len(generators), r \in 1..Len(resources) :
           claim_resources(resources[r].owner, n, r)
    /\ UNCHANGED worldVars

LUpgradeGenerator ==
    /\ UNCHANGED <<browser, calls>>
    /\ \E n \in 1..Len(generators), r \in 1..Len(resources) :
           upgrade_generator(resources[r].owner, n, r)
    /\ UNCHANGED worldVars

LRecaptureGenerator ==
    /\ UNCHANGED <<browser, calls>>
    /\ \E g \in 1..Len(matches), n \in 1..Len(generators), r \in 1..Len(resources) :
           recapture_generator(resources[r].owner, g, n, r)
    /\ UNCHANGED worldVars

LProposeTrade ==
    /\ UNCHANGED <<browser, calls>>
    /\ Len(proposals) < MaxLedgerProposals
    /\ \E g \in 1..Len(matches) :
           propose_trade(matches[g].participants[1], g,
                         firstResources(matches[g].participants[1]),
                         matches[g].participants[2], <<60, 0, 0>>, <<0, 0, 30>>)
    /\ UNCHANGED worldVars

LAcceptTrade ==
    /\ UNCHANGED <<browser, calls>>
    /\ \E p \in 1..Len(proposals), pr \in 1..Len(resources), ar \in 1..Len(resources) :
           accept_trade(proposals[p].target, p, pr, ar)
    /\ UNCHANGED worldVars

LCancelTrade ==
    /\ UNCHANGED <<browser, calls>>
    /\ \E s \in Senders, p \in 1..Len(proposals) : cancel_trade(s, p)
    /\ UNCHANGED worldVars

LClockTick ==
    /\ UNCHANGED <<browser, calls>>
    /\ \E t \in LedgerClockValues : Tick(t)
    /\ UNCHANGED worldVars

LedgerNext ==
    \/ LCreateMatch
    \/ LCreateGenerators
    \/ LClaimGenerator
    \/ LClaimResources
    \/ LUpgradeGenerator
    \/ LRecaptureGenerator
    \/ LProposeTrade
    \/ LAcceptTrade
    \/ LCancelTrade
    \/ LClockTick

SpecLedger == LedgerInit /\ [][LedgerNext]_vars

(***************************************************************************)
(* Trading next to upgrading: proposals stay open while their proposer      *)
(* spends on a generator.                                                   *)
(***************************************************************************)
MaxSolvencyGens == 1
MaxSolvencyProposals == 2

SolCreateGenerators ==
    /\ UNCHANGED <<browser, calls>>
    /\ Len(generators) < MaxSolvencyGens
    /\ \E g \in 1..Len(matches) :
           create_generators(matches[g].creator, g, WOOD, << <<10, 20>> >>)
    /\ UNCHANGED worldVars

SolClaimGenerator ==
    /\ UNCHANGED <<browser, calls>>
    /\ \E g \in 1..Len(matches), n \in 1..Len(generators), d \in {1, 2} :
           claim_generator(matches[g].participants[d], g, n)
    /\ UNCHANGED worldVars

SolUpgradeGenerator ==
    /\ UNCHANGED <<browser, calls>>
    /\ \E n \in 1..Len(generators) :
           /\ firstResources(generators[n].owner) # 0
           /\ upgrade_generator(generators[n].owner, n, firstResources(generators[n].owner))
    /\ UNCHANGED worldVars

\* propose_trade, by either participant to the other
SolProposeTrade ==
    /\ UNCHANGED <<browser, calls>>
    /\ Len(proposals) < MaxSolvencyProposals
    /\ \E g \in 1..Len(matches), d \in {1, 2}, o \in TradeOffers :
           LET s == matches[g].participants[d]
               t == matches[g].participants[3 - d]
           IN propose_trade(s, g, firstResources(s), t, o, <<0, 0, 30>>)
    /\ UNCHANGED worldVars

\* accept_trade, by the target with the two parties' records
SolAcceptTrade ==
    /\ UNCHANGED <<browser, calls>>
    /\ \E p \in 1..Len(proposals) :
           /\ proposals[p].live
           /\ accept_trade(proposals[p].target, p, firstResources(proposals[p].proposer),
                           firstResources(proposals[p].target))
    /\ UNCHANGED worldVars

SolCancelTrade ==
    /\ UNCHANGED <<browser, calls>>
    /\ \E p \in 1..Len(proposals) : cancel_trade(proposals[p].proposer, p)
    /\ UNCHANGED worldVars

SolvencyNext ==
    \/ CreateMatch
    \/ SolCreateGenerators
    \/ SolClaimGenerator
    \/ SolUpgradeGenerator
    \/ SolProposeTrade
    \/ SolAcceptTrade
    \/ SolCancelTrade

SpecSolvency == LedgerInit /\ [][SolvencyNext]_vars

(***************************************************************************)
(* The backend when it has started.  Without a player index the world      *)
(* holds the three default items.  With an index that is empty, its first   *)
(* start, initialize has made the default items and has sent their saves,   *)
(* which nobody awaits; with an index that an earlier run has filled,       *)
(* initialize has loaded what it holds.                                     *)
(***************************************************************************)
MaxAgents == 2
\* agents that are created while there is an index
MaxStoredAgents == 1
MaxPlayers == 1

AgentNames == <<"Alice", "Bob", "Carol", "Dave">>
AgentDescriptions == <<"A friendly merchant", "A wary guard", "A quiet scout",
                       "A tired miner">>
\* the wallet addresses generated for the agents, in order of creation
AgentAddrs == <<"0xaaaaaa01", "0xbbbbbb02", "0xcccccc03", "0xdddddd04">>
AgentPositions == {<<30, 30>>, <<20, 25>>}
\* where the generators of a match are put, in order of creation
GeneratorPositions == <<<<10, 20>>, <<30, 40>>, <<50, 60>>>>
\* playerId of the player routes and of the collect route
PlayerIds == {"player-1"}
\* the players the index may hold when the backend starts
StoredPlayers ==
    {<<>>,
     <<[id |-> "player-1", name |-> Undefined, position |-> <<32, 30>>,
        suiAddress |-> "0xbbbbbb02"]>>}

NoIndex == [defined |-> FALSE, players |-> <<>>, items |-> <<>>, agents |-> <<>>]
Index(players) ==
    [defined |-> TRUE, players |-> players,
     items |-> generateDefaultItems(<<>>, 0).items, agents |-> <<>>]

Started ==
    /\ browser = BrowserInit
    /\ matches = <<>>
    /\ resources = <<>>
    /\ generators = <<>>
    /\ proposals = <<>>
    /\ clock = 0
    /\ lastTx = NoTx
    /\ holder = [gens |-> <<>>, props |-> <<>>]
    /\ agents = <<>>
    /\ items = generateDefaultItems(<<>>, 0).items
    /\ uuids = 3
    /\ lastCall = NoCall

BackendInit ==
    /\ Started
    /\ calls = <<>>

SyncInit ==
    /\ BackendInit
    /\ suiGameService = [defined |-> TRUE, currentGameId |-> 0]
    /\ esService = NoIndex

\* the backend started again with the player index its first start has
\* filled
PersistentInit ==
    /\ BackendInit
    /\ suiGameService = [defined |-> TRUE, currentGameId |-> 0]
    /\ esService = Index(<<>>)

\* the backend started with an index that holds a player
StoredInit ==
    /\ BackendInit
    /\ suiGameService = [defined |-> TRUE, currentGameId |-> 0]
    /\ esService \in {Index(ps) : ps \in StoredPlayers \ {<<>>}}

\* the backend started by index.ts: the ledger client is always constructed,
\* the player index is there when persistence is enabled and its ping is
\* answered
CtxInit ==
    /\ BackendInit
    /\ suiGameService = [defined |-> TRUE, currentGameId |-> 0]
    /\ esService \in {NoIndex} \cup {Index(ps) : ps \in StoredPlayers}

\* WorldContextServiceExtended constructed over the world without a ledger
\* client, which its constructor admits and index.ts never does
WithoutLedgerInit ==
    /\ BackendInit
    /\ suiGameService = [defined |-> FALSE, currentGameId |-> 0]
    /\ esService \in {NoIndex} \cup {Index(ps) : ps \in StoredPlayers}


(***************************************************************************)
(* POST /agents/:agentId/chat: the context is built for the agent, written  *)
(* to the world_context memory block of its dialogue agent, and the         *)
(* message is posted; either request of the dialogue server may fail.       *)
(***************************************************************************)
MaxChatAgents == 2
Min(a, b) == IF a < b THEN a ELSE b
Max(a, b) == IF a > b THEN a ELSE b
ChatPositions == {<<30, 30>>, <<35, 30>>}
\* message of the request body; "" when it is missing
ChatMessages == {"", "hello"}
\* HTTP status the dialogue server answers the PATCH and the POST with
PatchStatuses == {200, 404, 500}
PostStatuses == {200, 500}
BriefContextLines == 15

\* the dialogue agent created for a world agent
lettaAgentId(agent) == "agent-" \o agent.id

\* line.trim(): the line without the whitespace it begins and ends with
RECURSIVE trimmed(_)
trimmed(line) ==
    LET WhiteSpace == {" ", "\t", "\n", "\r", "\f"}
    IN IF Len(line) = 0 THEN line
       ELSE IF Head(line) \in WhiteSpace THEN trimmed(Tail(line))
       ELSE IF SubSeq(line, Len(line), Len(line)) \in WhiteSpace
       THEN trimmed(SubSeq(line, 1, Len(line) - 1))
       ELSE line

\* the variant that keeps the first lines of the context, blank or not
briefContext_withBlankLines(systemContext) ==
    SubSeq(systemContext, 1, Min(BriefContextLines, Len(systemContext)))

\* systemContext.split("\n").filter(line => line.trim()).slice(0, 15)
briefContext(systemContext) ==
    LET kept == SelectSeq(systemContext, LAMBDA line : Truthy(trimmed(line)))
    IN SubSeq(kept, 1, Min(BriefContextLines, Len(kept)))

\* `[Your current environment:\n${briefContext}]\n\nPlayer says: ${message}`
withEnvironment(brief, message) ==
    (IF brief = <<>>
     THEN <<"[Your current environment:", "]">>
     ELSE <<"[Your current environment:">>
          \o SubSeq(brief, 1, Len(brief) - 1)
          \o <<brief[Len(brief)] \o "]">>)
    \o <<"", "Player says: " \o message>>

\* LettaClient.updateMemoryBlock: one PATCH; threw when it is not answered 200
updateMemoryBlock(agentId, blockLabel, value, patch) ==
    [requests |-> <<[method |-> "PATCH", agent |-> agentId, block |-> blockLabel,
                     content |-> value]>>,
     threw |-> patch # 200]

\* LettaClient.sendMessage: one POST; threw when it is not answered 200
sendMessage(agentId, message, post) ==
    [requests |-> <<[method |-> "POST", agent |-> agentId, block |-> "",
                     content |-> message]>>,
     threw |-> post # 200]

\* an address of the model as the characters shouldRecaptureGenerator searches
chars(address) ==
    CASE address = "0x0" -> <<"0", "x", "0">>
      [] address = "0xaaaaaa01" -> <<"0", "x", "a", "a", "a", "a", "a", "a", "0", "1">>
      [] address = "0xbbbbbb02" -> <<"0", "x", "b", "b", "b", "b", "b", "b", "0", "2">>
      [] OTHER -> <<"0", "x", "c", "c", "c", "c", "c", "c", "0", "3">>

(***************************************************************************)
(* Calls in flight.  A handler runs until it awaits; what it awaits is      *)
(* answered later, and other handlers run in between.  A call is a handler  *)
(* parked at an await: op is the request, fn the function that awaits, pc   *)
(* the awaited call, and the other fields are the locals that are live.     *)
(* A call is resumed with what it awaited, read from the state as it is     *)
(* then, and runs on to its next await, to its return or to its throw.      *)
(***************************************************************************)
MaxCalls == 2
\* ids uuidv4 may hand out before the model stops adding
MaxItems == 5
\* ids uuidv4 may hand out before agents and default items are made no more
MaxUuids == 6
\* requests to the index that nobody awaits and that are not answered yet
MaxPending == 3
\* promises the world routes have left that are not settled yet
MaxPromises == 1
\* calls of the clear-data route in flight at a time
MaxClears == 1

NoAgent == [id |-> "", name |-> "", description |-> "", position |-> <<0, 0>>,
            suiAddress |-> ""]

NoContext == [selfInfo |-> <<>>, nearbyAgents |-> <<>>, nearbyItems |-> <<>>,
              nearbyPlayers |-> <<>>, nearbyGenerators |-> <<>>,
              resourcesInfo |-> <<>>, tradeProposals |-> <<>>, worldInfo |-> <<>>,
              fullContext |-> <<>>]

\* ---- the player index ------------------------------------------------------
\* a request of the Elasticsearch client: client.index stores doc under id,
\* client.update merges doc into the document stored under id, client.delete
\* removes that document, and client.deleteByQuery with match_all removes
\* every document of the index.  doc is the object as it is when the
\* request is made.
request(kind, index, id, doc) == [kind |-> kind, index |-> index, id |-> id, doc |-> doc]

NoRequest == request("none", "", "", NoAgent)

\* the indices the model holds the documents of
Held == {"agents", "items", "players"}

\* the index es when it has carried out a request
answered(es, r) ==
    IF r.kind = "none" \/ r.index \notin Held THEN es
    ELSE LET docs == es[r.index]
             hits == {i \in 1..Len(docs) : docs[i].id = r.id}
         IN [es EXCEPT ![r.index] =
                CASE r.kind = "index" ->
                        IF hits = {} THEN Append(docs, r.doc)
                        ELSE [i \in 1..Len(docs) |-> IF i \in hits THEN r.doc ELSE docs[i]]
                  [] r.kind = "update" ->
                        [i \in 1..Len(docs) |-> IF i \in hits THEN r.doc @@ docs[i]
                                                ELSE docs[i]]
                  [] r.kind = "delete" ->
                        SelectSeq(docs, LAMBDA d : d.id # r.id)
                  [] OTHER -> <<>>]

\* client.update and client.delete of a document that is not there are
\* answered 404, which the client throws
missing(es, r) ==
    /\ r.kind \in {"update", "delete"}
    /\ r.index \in Held
    /\ \A i \in 1..Len(es[r.index]) : es[r.index][i].id # r.id

\* a handler that has awaited nothing yet.  failed names the builders of the
\* context a read of which threw, seen is the agent Map and observer the requesting agent
\* as the nearby-agents section found them, after the generators as the
\* call's transaction left them, request what the call has asked of the
\* index, and attached says that the agent the call holds is the object the
\* Map holds under its id.
Call(op) ==
    [op |-> op, fn |-> op, pc |-> "", ok |-> TRUE, created |-> 0,
     gameId |-> 0, participants |-> <<>>, k |-> 0, gens |-> <<>>, w |-> 1,
     agent |-> NoAgent, contextRange |-> 0, position |-> <<0, 0>>,
     c |-> NoContext, parts |-> <<>>, players |-> <<>>, info |-> <<>>, left |-> {},
     allGenerators |-> <<>>, allProposals |-> <<>>,
     message |-> "", patch |-> 200, post |-> 200, requests |-> <<>>, sent |-> <<>>,
     generatorId |-> 0, reason |-> FALSE, humanMemory |-> <<>>, res |-> 0,
     status |-> 0, resolved |-> FALSE, found |-> FALSE, should |-> FALSE,
     submitted |-> FALSE, after |-> <<>>, failed |-> {}, seen |-> <<>>,
     observer |-> NoAgent, request |-> NoRequest, attached |-> TRUE,
     rejected |-> FALSE]

\* what a resumed call leaves: itself, the world as it has written it, the
\* promises it has made and awaits no more, and whether it has put new
\* objects into the agent Map
Outcome(c, its, n) ==
    [call |-> c, items |-> its, uuids |-> n,
     currentGameId |-> suiGameService.currentGameId,
     agents |-> agents, spawned |-> <<>>, reloaded |-> FALSE]

Parked(c) == Outcome(c, items, uuids)

\* the GameAgent object the call holds: while it is the object of the Map,
\* updateAgentPosition writes to it
agentOf(c) ==
    LET held == {i \in 1..Len(agents) : agents[i].id = c.agent.id}
    IN IF c.attached /\ held # {} THEN agents[CHOOSE i \in held : TRUE] ELSE c.agent

\* loadFromElasticsearch has cleared the agent Map and set the agents of the
\* index: the object a call holds is in the Map no more
detach(c) == [c EXCEPT !.agent = agentOf(c), !.attached = FALSE]

\* the promises that no handler awaits: a saveItem of generateDefaultItems,
\* and GameWorld.addItem, removeItem and collectItem as the world routes
\* call them
Unawaited == {"saveItem", "addItem", "removeItem", "collectItem"}

\* the ones a rejection of which nothing catches: generateDefaultItems
\* catches the error of its saves
Uncaught == Unawaited \ {"saveItem"}

promise(op, pc, r) == [Call(op) EXCEPT !.pc = pc, !.request = r]

\* esService.saveItem(newItem) called for each of docs and not awaited
saveItems(docs) ==
    IF esService.defined
    THEN [i \in 1..Len(docs) |->
             promise("saveItem", "saveItem", request("index", "items", docs[i].id, docs[i]))]
    ELSE <<>>

\* the backend started for the first time with a player index: the index
\* is empty, loadFromElasticsearch has found no items and the three saves
\* of generateDefaultItems are in flight
FirstStartInit ==
    /\ Started
    /\ suiGameService = [defined |-> TRUE, currentGameId |-> 0]
    /\ esService = [Index(<<>>) EXCEPT !.items = <<>>]
    /\ calls = saveItems(generateDefaultItems(<<>>, 0).items)

\* ---- syncGeneratorsToWorld -------------------------------------------------
\* the for loop entered, or resumed after an addItem, at the k-th generator
\* addItem sets the item in the Map and, with an index, awaits saveItem
forLoop(c, its, n, k) ==
    LET done == syncLoop(its, n, c.gens, k)
    IN Outcome([c EXCEPT !.pc = IF done.awaits THEN "addItem" ELSE "return",
                         !.w = done.k,
                         !.request =
                             IF done.awaits
                             THEN request("index", "items",
                                          done.items[Len(done.items)].id,
                                          done.items[Len(done.items)])
                             ELSE NoRequest],
               done.items, done.uuids)

\* a saveItem that throws is caught nowhere in the pass: the pass throws
resumeSync(c, its, n, threw) ==
    IF c.pc = "addItem"
    THEN IF threw THEN Outcome([c EXCEPT !.pc = "throw"], its, n)
         ELSE forLoop(c, its, n, c.w)
    ELSE LET r == getAllGenerators(c, threw)
         IN IF r.pc = "return" THEN forLoop(r, its, n, 1) ELSE Outcome(r, its, n)

\* ---- createMatch, createGenerators, claimGenerator, recaptureGenerator ----
\* resumed with the answer to signAndExecuteTransactionBlock: when it
\* throws the pass is not reached (rejected); when it answers, for a
\* transaction that was executed or for one that aborted, effects.status is
\* not read: createMatch looks for the GameMatch among the objects created
\* and throws when there is none, the others go on to the pass
\* the variant that returns without the pass
resumeTransaction_withoutSync(c, threw) ==
    IF threw THEN Parked([c EXCEPT !.pc = "throw", !.rejected = TRUE])
    ELSE IF c.op = "createMatch"
    THEN IF c.ok
         THEN [Parked([c EXCEPT !.pc = "return"]) EXCEPT !.currentGameId = c.created]
         ELSE Parked([c EXCEPT !.pc = "throw"])
    ELSE Parked([c EXCEPT !.pc = "return"])

resumeTransaction(c, threw) ==
    IF threw THEN Parked([c EXCEPT !.pc = "throw", !.rejected = TRUE])
    ELSE IF c.op = "createMatch"
    THEN IF c.ok
         THEN [Parked([c EXCEPT !.pc = "return"]) EXCEPT !.currentGameId = c.created]
         ELSE Parked([c EXCEPT !.pc = "throw"])
    ELSE Parked(syncGeneratorsToWorld(c, suiGameService.currentGameId))

\* ---- generateAgentContext --------------------------------------------------
\* LettaClient.sendMessageWithContext called: the PATCH of the memory block
\* is sent and awaited
sendMessageWithContext(c) ==
    [c EXCEPT !.fn = "sendMessageWithContext", !.pc = "updateMemoryBlock",
              !.requests = updateMemoryBlock(lettaAgentId(c.agent), "world_context",
                                             c.c.fullContext, c.patch).requests]

\* the sections are joined and the context is returned to the route
contextDone(c) ==
    LET done == [c EXCEPT !.c.fullContext = fullContext(c.c)]
    IN IF c.op = "chat" THEN sendMessageWithContext(done)
       ELSE [done EXCEPT !.pc = "return"]

worldDone(c) == contextDone([c EXCEPT !.c.worldInfo = buildWorldInfo(c.parts)])

buildWorldInfoCalled(c) ==
    LET p == [c EXCEPT !.parts = worldParts]
    IN IF suiGameService.defined /\ suiGameService.currentGameId # 0
       THEN getObject(p, "buildWorldInfo", suiGameService.currentGameId)
       ELSE worldDone(p)

resumeWorldInfo(c, threw) ==
    IF c.pc = "getGameMatch"
    THEN LET gameInfo == getGameMatch(c.gameId, threw)
         IN worldDone([c EXCEPT !.parts = @ \o
                (IF ~gameInfo.threw /\ gameInfo.found
                 THEN <<"- Game participants: "
                          \o ToString(Len(gameInfo.participants)) \o " players">>
                 ELSE <<>>)])
    ELSE LET r == getAllGenerators(c, threw)
         IN IF r.pc = "return"
            THEN [r EXCEPT !.pc = "getGameMatch",
                           !.parts = @ \o <<"- Total generators in game: "
                                              \o ToString(Len(r.gens))>>]
            ELSE r

tradesDone(c, allProposals) ==
    buildWorldInfoCalled(
        [c EXCEPT !.allProposals = allProposals,
                  !.c.tradeProposals =
                      buildTradeProposalsInfo(c.agent,
                          getTradeProposalsForAgent(allProposals, c.agent.suiAddress))])

buildTradeProposalsInfoCalled(c) ==
    IF ~suiGameService.defined
    THEN buildWorldInfoCalled(
             [c EXCEPT !.c.tradeProposals =
                           <<"TRADE PROPOSALS:", "- Trading not available">>])
    ELSE IF suiGameService.currentGameId = 0 THEN tradesDone(c, <<>>)
    ELSE getObject(c, "buildTradeProposalsInfo", suiGameService.currentGameId)

resumeTradeProposalsInfo(c, threw) ==
    LET r == getAllTradeProposals(c, threw)
    IN IF r.pc = "return" THEN tradesDone(r, r.gens) ELSE r

buildResourcesInfoCalled(c) ==
    IF ~suiGameService.defined
    THEN buildTradeProposalsInfoCalled(
             [c EXCEPT !.c.resourcesInfo = buildResourcesInfo(FALSE, NoResources)])
    ELSE [c EXCEPT !.fn = "buildResourcesInfo", !.pc = "getPlayerResources"]

resumeResourcesInfo(c, threw) ==
    buildTradeProposalsInfoCalled(
        [c EXCEPT !.c.resourcesInfo =
                      buildResourcesInfo(TRUE,
                          getPlayerResources(c.agent.suiAddress, threw))])

buildNearbyGeneratorsInfoCalled(c) ==
    IF ~suiGameService.defined
    THEN buildResourcesInfoCalled(
             [c EXCEPT !.c.nearbyGenerators =
                  <<"NEARBY GENERATORS:", "- Generator tracking not available">>])
    ELSE IF suiGameService.currentGameId = 0
    THEN buildResourcesInfoCalled(
             [c EXCEPT !.c.nearbyGenerators =
                  <<"NEARBY GENERATORS:", "- No active game">>])
    ELSE getObject([c EXCEPT !.position = c.agent.position],
                   "buildNearbyGeneratorsInfo", suiGameService.currentGameId)

resumeNearbyGeneratorsInfo(c, threw) ==
    LET r == getAllGenerators(c, threw)
    IN IF r.pc = "return"
       THEN buildResourcesInfoCalled(
                [r EXCEPT !.allGenerators = r.gens,
                          !.c.nearbyGenerators =
                              buildNearbyGeneratorsInfo(r.agent,
                                  getGeneratorsNearPosition(r.gens, r.position,
                                                            r.contextRange))])
       ELSE r

playersDone(c) ==
    buildNearbyGeneratorsInfoCalled(
        [c EXCEPT !.c.nearbyPlayers = buildNearbyPlayersInfo(c.players, c.info)])

buildNearbyPlayersInfoCalled(c) ==
    IF ~esService.defined
    THEN buildNearbyGeneratorsInfoCalled(
             [c EXCEPT !.c.nearbyPlayers =
                  <<"NEARBY PLAYERS:", "- Player tracking not available">>])
    ELSE [c EXCEPT !.fn = "buildNearbyPlayersInfo", !.pc = "getAllPlayers"]

\* resumed with the players of the index, or with the resources of the j-th
\* nearby player: Promise.all takes the answers in the order they come
resumeNearbyPlayersInfo(c, threw, j) ==
    IF c.pc = "getAllPlayers"
    THEN LET allPlayers == getAllPlayers(threw)
             near == nearbyPlayers(c.agent, allPlayers.players, c.contextRange)
             left == {i \in 1..Len(near) :
                         suiGameService.defined /\ Truthy(near[i].suiAddress)}
             p == [c EXCEPT !.players = near, !.left = left,
                            !.info = [i \in 1..Len(near) |-> ""]]
         IN IF allPlayers.threw
            THEN buildNearbyGeneratorsInfoCalled(
                     [c EXCEPT !.c.nearbyPlayers =
                          <<"NEARBY PLAYERS:", "- Error loading player information">>])
            ELSE IF left = {} THEN playersDone(p)
            ELSE [p EXCEPT !.pc = "getPlayerResources"]
    ELSE LET p == [c EXCEPT !.left = @ \ {j},
                            !.info[j] = resourceInfo(
                                getPlayerResources(c.players[j].suiAddress, threw))]
         IN IF p.left = {} THEN playersDone(p) ELSE p

\* buildSelfInfo has returned: the two sections that await nothing are
\* built, and buildNearbyPlayersInfo is called
selfDone(c) ==
    buildNearbyPlayersInfoCalled(
        [c EXCEPT !.seen = agents,
                  !.observer = c.agent,
                  !.c.nearbyAgents = buildNearbyAgentsInfo(c.agent, c.contextRange),
                  !.c.nearbyItems = buildNearbyItemsInfo(c.agent, c.contextRange)])

resumeSelfInfo(c, threw) ==
    selfDone([c EXCEPT !.c.selfInfo =
                  buildSelfInfo(c.parts, getPlayerResources(c.agent.suiAddress, threw))])

\* generateAgentContext(agent, contextRange) called in the call c
generateAgentContext(c) ==
    LET parts == selfParts(c.agent)
    IN IF suiGameService.defined
       THEN [c EXCEPT !.fn = "buildSelfInfo", !.pc = "getPlayerResources",
                      !.parts = parts]
       ELSE selfDone([c EXCEPT !.c.selfInfo = buildSelfInfo(parts, NoResources)])

\* the read the call c awaits has thrown, or has not: the builder that
\* awaits it is noted
noted(c, threw) ==
    IF ~threw THEN c
    ELSE [c EXCEPT !.failed = @ \cup
             {CASE c.fn = "buildSelfInfo" -> "self"
                [] c.fn = "buildNearbyPlayersInfo" -> "players"
                [] c.fn = "buildNearbyGeneratorsInfo" -> "generators"
                [] c.fn = "buildResourcesInfo" -> "resources"
                [] c.fn = "buildTradeProposalsInfo" -> "proposals"
                [] OTHER -> "world"}]

resumeContext(c, threw, j) ==
    CASE c.fn = "buildSelfInfo" -> resumeSelfInfo(noted(c, threw), threw)
      [] c.fn = "buildNearbyPlayersInfo" ->
            resumeNearbyPlayersInfo(noted(c, threw), threw, j)
      [] c.fn = "buildNearbyGeneratorsInfo" ->
            resumeNearbyGeneratorsInfo(noted(c, threw), threw)
      [] c.fn = "buildResourcesInfo" -> resumeResourcesInfo(noted(c, threw), threw)
      [] c.fn = "buildTradeProposalsInfo" ->
            resumeTradeProposalsInfo(noted(c, threw), threw)
      [] OTHER -> resumeWorldInfo(noted(c, threw), threw)

\* ---- POST /agents/:agentId/chat -------------------------------------------
\* sendMessageWithContext resumed with the answer to its PATCH, and then
\* with the answer to its POST
resumeChat(c, threw) ==
    IF c.pc = "updateMemoryBlock"
    THEN LET message == IF threw
                        THEN withEnvironment(briefContext(c.c.fullContext), c.message)
                        ELSE <<c.message>>
         IN [c EXCEPT !.pc = "sendMessage",
                      !.requests = @ \o sendMessage(lettaAgentId(c.agent), message,
                                                    c.post).requests]
    ELSE [c EXCEPT !.pc = IF threw THEN "throw" ELSE "return",
                   !.status = IF threw THEN 500 ELSE 200]

\* ---- POST /agents/:agentId/actions/recapture-generator --------------------
\* what the route answers without sending a transaction; an error thrown in
\* the handler is answered 500 by its catch
answer(c, status) ==
    [c EXCEPT !.pc = IF status = 500 THEN "throw" ELSE "return", !.status = status]

\* the enumeration has returned: gens.find, the heuristic, the check of
\* `reason`, and recaptureGenerator called up to its await
recaptureDecision(c) ==
    LET hits == {k \in 1..Len(c.gens) : c.gens[k].objectId = objectIdOf(c.generatorId)}
    IN IF hits = {}
       \* gens.find gives undefined and generator.owner throws
       THEN [answer(c, 500) EXCEPT !.resolved = TRUE]
       ELSE LET gen == c.gens[CHOOSE k \in hits : \A j \in hits : k <= j]
                shouldRecapture ==
                    shouldRecaptureGenerator([owner |-> chars(gen.owner)],
                                             chars(c.agent.suiAddress), c.humanMemory)
            IN IF ~shouldRecapture /\ ~c.reason
               THEN [answer(c, 400) EXCEPT !.resolved = TRUE, !.found = TRUE,
                                           !.should = shouldRecapture]
               ELSE [c EXCEPT !.fn = "recaptureGenerator", !.pc = "submit",
                              !.resolved = TRUE, !.found = TRUE,
                              !.should = shouldRecapture, !.submitted = TRUE]

resumeRoute(c, threw) ==
    CASE c.pc = "getPlayerResources" ->
            IF threw THEN answer(c, 500)
            ELSE IF firstResources(c.agent.suiAddress) = 0 THEN answer(c, 400)
            ELSE [c EXCEPT !.pc = "getMemoryBlocks",
                           !.res = firstResources(c.agent.suiAddress)]
      [] c.pc = "getMemoryBlocks" ->
            IF threw THEN answer(c, 500) ELSE getObject(c, "route", c.gameId)
      [] OTHER ->
            LET r == getAllGenerators(c, threw)
            IN IF r.pc = "return" THEN recaptureDecision(r) ELSE r

\* ---- POST /api/admin/clear-data -------------------------------------------
\* the indices clearAllData empties, in its order
Indices == <<"agents", "items", "tiles", "players", "config">>

\* GameWorld.generateDefaultItems called in the call c on the items its of
\* the Map: the three items are set, and their saves are sent and not awaited
generateDefaultItemsCalled(c, its) ==
    LET made == generateDefaultItems(its, uuids)
    IN [Outcome(c, made.items, made.uuids)
          EXCEPT !.spawned = saveItems(SubSeq(made.items, Len(its) + 1, Len(made.items)))]

\* GameWorld.loadFromElasticsearch fell into its catch
fallback(c) ==
    generateDefaultItemsCalled([c EXCEPT !.pc = "return", !.request = NoRequest], items)

\* clearAllData resumed with the answer to a deleteByQuery, whose error is
\* caught, and GameWorld.initialize resumed with the items and then with the
\* agents of the index.  The reads and writes of the world config and of
\* the tiles that come before write nothing that is held here, and a throw
\* of theirs falls into the same catch as a throw of getAllItems, with the
\* items as they are.
resumeClearData(c, threw) ==
    CASE c.pc = "deleteByQuery" ->
            Parked(IF c.k < Len(Indices)
                   THEN [c EXCEPT !.k = c.k + 1,
                                  !.request = request("deleteByQuery", Indices[c.k + 1],
                                                      "", NoAgent)]
                   ELSE [c EXCEPT !.fn = "loadFromElasticsearch", !.pc = "getAllItems",
                                  !.request = NoRequest])
      [] c.pc = "getAllItems" ->
            IF threw THEN fallback(c)
            ELSE IF Len(esService.items) > 0
            THEN Outcome([c EXCEPT !.pc = "getAllAgents"], esService.items, uuids)
            ELSE generateDefaultItemsCalled([c EXCEPT !.pc = "getAllAgents"], <<>>)
      [] OTHER ->
            IF threw THEN fallback(c)
            ELSE [Parked([c EXCEPT !.pc = "return"])
                    EXCEPT !.agents = esService.agents, !.reloaded = TRUE]

\* ---- POST /agents, PATCH /agents/:agentId/position --------------------------
\* resumed with the answer to saveAgent or to updateAgentPosition
resumeAgentRoute(c, threw) ==
    answer(c, IF threw THEN 500 ELSE IF c.op = "addAgent" THEN 201 ELSE 200)

\* ---- POST /players, PATCH /players/:playerId/position, PATCH /players/:playerId
\* resumed with the answer to savePlayer, to updatePlayerPosition or with the
\* player getPlayer found.  The context service has no method
\* getPlayerVisibleContext: the call of it throws a TypeError, which the
\* catch of the route answers 500.
resumePlayerRoute(c, threw) ==
    LET stored == {p \in 1..Len(esService.players) :
                      esService.players[p].id = c.message}
    IN IF threw THEN answer(c, 500)
       ELSE CASE c.pc = "updatePlayerPosition" ->
                    [c EXCEPT !.pc = "getPlayer", !.request = NoRequest]
              [] c.pc = "getPlayer" ->
                    IF stored = {} THEN answer(c, 404)
                    ELSE IF c.op = "patchPlayer"
                    THEN [c EXCEPT !.pc = "savePlayer",
                                   !.request =
                                       request("index", "players", c.message,
                                               [esService.players[CHOOSE p \in stored : TRUE]
                                                   EXCEPT !.name = "Renamed"])]
                    ELSE answer(c, 500)
              [] OTHER -> answer(c, IF c.op = "postPlayer" THEN 201 ELSE 200)

\* ---- promises nobody awaits -------------------------------------------------
\* GameWorld.addItem and GameWorld.removeItem, called and not awaited by the
\* world routes, and a saveItem of generateDefaultItems, resumed with the
\* answer of the index; GameWorld.collectItem resumed with the answer to
\* updateItemCollection and then, in addItemToPlayerInventory, with the
\* player of getPlayer and with the answer to the update of the inventory.
\* A promise that is rejected ends at throw: the rejection of a saveItem of
\* generateDefaultItems is caught and logged, that of the others is caught
\* nowhere (see exited)
resumePromise(c, threw) ==
    IF threw THEN [c EXCEPT !.pc = "throw"]
    ELSE CASE c.pc = "updateItemCollection" ->
                 [c EXCEPT !.pc = "getPlayer", !.request = NoRequest]
           [] c.pc = "getPlayer" ->
                 IF \A p \in 1..Len(esService.players) :
                        esService.players[p].id # c.message
                 THEN [c EXCEPT !.pc = "throw"]
                 ELSE [c EXCEPT !.pc = "addItemToPlayerInventory",
                                !.request = request("update", "players", c.message,
                                                    [id |-> c.message])]
           [] OTHER -> [c EXCEPT !.pc = "return"]

\* ---- the event loop --------------------------------------------------------
\* the responses a parked call may be resumed with: whether the awaited call
\* threw.  A read of the ledger or of the index throws or answers, each on
\* its own; the requests to the dialogue server throw for a status that is
\* not 2xx; signAndExecuteTransactionBlock throws or answers, for a
\* transaction that was executed and for one that aborted alike (the node
\* reports an abort in effects.status); an update or a delete of a document
\* the index holds not throws.
Throws(c) ==
    IF c.pc = "updateMemoryBlock"
    THEN {updateMemoryBlock("", "", <<>>, c.patch).threw}
    ELSE IF c.pc = "sendMessage"
    THEN {sendMessage("", <<>>, c.post).threw}
    ELSE IF missing(esService, c.request) THEN {TRUE}
    ELSE BOOLEAN

\* the promises of a Promise.all that are still pending
Awaited(c) ==
    IF c.fn = "buildNearbyPlayersInfo" /\ c.pc = "getPlayerResources" THEN c.left
    ELSE {0}

resume(parked, threw, j) ==
    LET c == [parked EXCEPT !.agent = agentOf(parked)]
    IN CASE c.op = "clearData" -> resumeClearData(c, threw)
         [] c.op \in Unawaited -> Parked(resumePromise(c, threw))
         [] c.op \in {"addAgent", "updateAgentPosition"} ->
               Parked(resumeAgentRoute(c, threw))
         [] c.op = "removeAgent" ->
               Parked([c EXCEPT !.pc = IF threw THEN "throw" ELSE "return"])
         [] c.op \in {"postPlayer", "patchPlayerPosition", "patchPlayer"} ->
               Parked(resumePlayerRoute(c, threw))
         [] c.pc = "signAndExecuteTransactionBlock" -> resumeTransaction(c, threw)
         [] c.fn = "syncGeneratorsToWorld" -> resumeSync(c, items, uuids, threw)
         [] c.fn = "route" -> Parked(resumeRoute(c, threw))
         [] c.fn = "sendMessageWithContext" -> Parked(resumeChat(c, threw))
         [] OTHER -> Parked(resumeContext(c, threw, j))

\* what is observed of a call that has returned or thrown
returned(c) ==
    CASE c.op = "syncGeneratorsToWorld" ->
            [op |-> "sync", threw |-> c.pc = "throw", game |-> c.gameId,
             gens |-> c.gens]
      [] c.op \in {"createMatch", "createGenerators", "claimGenerator",
                   "recaptureGenerator"} ->
            [op |-> c.op, threw |-> c.pc = "throw", ok |-> c.ok,
             rejected |-> c.rejected, game |-> c.gameId, gens |-> c.gens, after |-> c.after]
      [] c.op = "generateAgentContext" ->
            [op |-> c.op, agent |-> c.agent, contextRange |-> c.contextRange,
             context |-> c.c, position |-> c.position,
             allGenerators |-> c.allGenerators, allProposals |-> c.allProposals,
             failed |-> c.failed, seen |-> c.seen, observer |-> c.observer]
      [] c.op = "chat" ->
            [op |-> c.op, status |-> c.status, message |-> c.message,
             requests |-> c.requests, agent |-> lettaAgentId(c.agent),
             context |-> c.c.fullContext, patch |-> c.patch, post |-> c.post]
      [] c.op = "recaptureRoute" ->
            [op |-> c.op,
             status |-> IF c.status # 0 THEN c.status
                        ELSE IF c.pc = "throw" THEN 500 ELSE 200,
             resolved |-> c.resolved, reason |-> c.reason, found |-> c.found,
             should |-> c.should, submitted |-> c.submitted]
      [] OTHER -> [op |-> c.op, threw |-> c.pc = "throw", status |-> c.status]

over(c) == c.pc \in {"return", "throw"}

without(s, f) == SubSeq(s, 1, f - 1) \o SubSeq(s, f + 1, Len(s))

\* the promises in flight that nobody awaits
pending == {f \in 1..Len(calls) : calls[f].op \in Unawaited}

\* the requests of a route that are in flight
callsOf(op) == {f \in 1..Len(calls) : calls[f].op = op}

\* what is left of the calls when the process has ended
Exit == <<[Call("exit") EXCEPT !.pc = "exit"]>>

\* the process serves requests
running == calls # Exit

\* a request arrives and its handler has run to its first await, or to its end
Begin(c) ==
    /\ running
    /\ IF over(c)
       THEN /\ calls' = calls
            /\ lastCall' = returned(c)
       ELSE /\ Len(calls) - Cardinality(pending) < MaxCalls
            /\ calls' = Append(calls, c)
            /\ lastCall' = NoCall

\* a synchronous handler has answered and has left promises it awaits not
left(promises) ==
    /\ running
    /\ Cardinality(pending) + Len(promises) <= MaxPromises
    /\ calls' = calls \o promises
    /\ lastCall' = NoCall

\* a promise that nobody awaits has been rejected and nothing catches the
\* rejection: Node ends the process, and the Maps and the calls in flight
\* are lost
exited ==
    /\ items' = <<>>
    /\ uuids' = uuids
    /\ agents' = <<>>
    /\ suiGameService' = [suiGameService EXCEPT !.currentGameId = 0]
    /\ calls' = Exit
    /\ lastCall' = NoCall

\* the f-th call in flight has run on and left out
resumed(f, out) ==
    IF out.call.op \in Uncaught /\ out.call.pc = "throw" THEN exited
    ELSE
    /\ out.uuids > uuids =>
          out.uuids <= (IF calls[f].op = "clearData" THEN MaxUuids ELSE MaxItems)
    /\ out.spawned # <<>> => Cardinality(pending) + Len(out.spawned) <= MaxPending
    /\ items' = out.items
    /\ uuids' = out.uuids
    /\ agents' = out.agents
    /\ suiGameService' =
          [suiGameService EXCEPT !.currentGameId = out.currentGameId]
    /\ calls' =
          (LET held == IF out.reloaded
                       THEN [g \in 1..Len(calls) |-> detach(calls[g])]
                       ELSE calls
           IN IF over(out.call) THEN without(held, f)
              ELSE [held EXCEPT ![f] = out.call])
          \o out.spawned
    /\ lastCall' = IF over(out.call) THEN returned(out.call) ELSE NoCall

\* the f-th call in flight is resumed with what it awaits: a request to the
\* index that is answered without an error has been carried out
ResumeCall(f) ==
    /\ calls[f].pc \notin {"submit", "exit"}
    /\ \E threw \in Throws(calls[f]), j \in Awaited(calls[f]) :
          /\ resumed(f, resume(calls[f], threw, j))
          /\ esService' = IF threw THEN esService
                          ELSE answered(esService, calls[f].request)
    /\ UNCHANGED <<browser, holder>>
    /\ UNCHANGED ledgerVars

Resume == \E f \in 1..Len(calls) : ResumeCall(f)

\* the chain executes the transaction the f-th call has submitted
Execute(f) ==
    /\ calls[f].pc = "submit"
    /\ recapture_generator(calls[f].agent.suiAddress, calls[f].gameId,
                           calls[f].generatorId, calls[f].res)
    /\ calls' = [calls EXCEPT ![f].pc = "signAndExecuteTransactionBlock",
                              ![f].ok = lastTx'.ok,
                              ![f].after = generators']
    /\ lastCall' = NoCall
    /\ UNCHANGED <<browser, holder, suiGameService, esService, agents, items, uuids>>

\* a method of SuiGameService is called and its transaction is executed:
\* the call awaits signAndExecuteTransactionBlock
submitted(op) ==
    /\ running
    /\ Len(calls) - Cardinality(pending) < MaxCalls
    /\ calls' = Append(calls,
                   [Call(op) EXCEPT !.pc = "signAndExecuteTransactionBlock",
                                    !.ok = lastTx'.ok,
                                    !.created = Len(matches'),
                                    !.after = generators'])
    /\ lastCall' = NoCall

(***************************************************************************)
(* GameWorld: agents are added and moved with whatever coordinates the      *)
(* routes are sent, and removed; with an index the world has started for    *)
(* the first time and the saves of its default items are being answered.    *)
(***************************************************************************)
\* GameWorld.addAgent, as POST /agents calls it when the dialogue agent has
\* been created: the agent is set in the Map and, with an index, saveAgent
\* is awaited
addAgent(name, description, suiAddress, position) ==
    LET agent == [id |-> uuidv4(uuids + 1), name |-> name,
                  description |-> description, position |-> position,
                  suiAddress |-> suiAddress]
    IN /\ uuids < MaxUuids
       /\ agents' = Append(agents, agent)
       /\ uuids' = uuids + 1
       /\ esService' = esService
       /\ Begin(IF esService.defined
                THEN [Call("addAgent") EXCEPT
                         !.pc = "saveAgent", !.agent = agent,
                         !.request = request("index", "agents", agent.id, agent)]
                ELSE [Call("addAgent") EXCEPT !.pc = "return", !.status = 201,
                                              !.agent = agent])

\* GameWorld.updateAgentPosition for the i-th agent of the Map, as PATCH
\* /agents/:agentId/position calls it: the position of the agent is written
\* and, with an index, updateAgentPosition of the index is awaited
updateAgentPosition(i, position) ==
    LET clamped == <<Max(0, Min(position[1], worldWidth)),
                     Max(0, Min(position[2], worldHeight))>>
    IN /\ agents' = [agents EXCEPT ![i].position = clamped]
       /\ esService' = esService
       /\ Begin(IF esService.defined
                THEN [Call("updateAgentPosition") EXCEPT
                         !.pc = "updateAgentPosition",
                         !.agent = [agents[i] EXCEPT !.position = clamped],
                         !.request = request("update", "agents", agents[i].id,
                                             [position |-> clamped])]
                ELSE [Call("updateAgentPosition") EXCEPT
                         !.pc = "return", !.status = 200,
                         !.agent = [agents[i] EXCEPT !.position = clamped]])

\* GameWorld.removeAgent for the i-th agent of the Map: the agent is deleted
\* from the Map and, with an index, deleteAgent is awaited; a call in flight
\* that holds the agent keeps the object, as it is at the removal
removeAgent(i) ==
    LET held == [g \in 1..Len(calls) |->
                    IF calls[g].agent.id = agents[i].id THEN detach(calls[g])
                    ELSE calls[g]]
        c    == [Call("removeAgent") EXCEPT
                    !.pc = IF esService.defined THEN "deleteAgent" ELSE "return",
                    !.agent = agents[i], !.attached = FALSE,
                    !.request = IF esService.defined
                                THEN request("delete", "agents", agents[i].id, NoAgent)
                                ELSE NoRequest]
    IN /\ running
       /\ agents' = without(agents, i)
       /\ esService' = esService
       /\ IF over(c)
          THEN /\ calls' = held
               /\ lastCall' = returned(c)
          ELSE /\ Len(calls) - Cardinality(pending) < MaxCalls
               /\ calls' = Append(held, c)
               /\ lastCall' = NoCall

MaxWorldAgents == 2
\* ids uuidv4 may hand out before agents are added no more: an agent that
\* is removed leaves room for another
MaxWorldUuids == 5
\* positions a request may carry, inside the world and outside it
RequestedPositions == {<<-5, -5>>, <<50, 50>>, <<150, 50>>}
\* what Math.random() returns one call after the other, in hundredths
RandomDraws == {<<0, 99>>}

\* Math.floor(Math.random() * worldWidth), Math.floor(Math.random() * worldHeight)
\* for the draws r1 and r2
getRandomPosition(r1, r2) ==
    <<(r1 * worldWidth) \div 100, (r2 * worldHeight) \div 100>>

\* POST /agents, with a position in the body or without one
WorldAddAgent ==
    /\ Len(agents) < (IF esService.defined THEN MaxStoredAgents ELSE MaxWorldAgents)
    /\ uuids < MaxWorldUuids
    /\ \E position \in RequestedPositions
                          \cup {getRandomPosition(r[1], r[2]) : r \in RandomDraws} :
           addAgent(AgentNames[Len(agents) + 1], AgentDescriptions[Len(agents) + 1],
                    AgentAddrs[Len(agents) + 1], position)
    /\ UNCHANGED <<browser, holder, suiGameService, items>>
    /\ UNCHANGED ledgerVars

\* PATCH /agents/:agentId/position
WorldUpdateAgentPosition ==
    /\ \E i \in 1..Len(agents), position \in RequestedPositions :
           updateAgentPosition(i, position)
    /\ UNCHANGED <<browser, holder, suiGameService, items, uuids>>
    /\ UNCHANGED ledgerVars

\* GameWorld.removeAgent, which no route calls
WorldRemoveAgent ==
    /\ \E i \in 1..Len(agents) : removeAgent(i)
    /\ UNCHANGED <<browser, holder, suiGameService, items, uuids>>
    /\ UNCHANGED ledgerVars

WorldNext ==
    \/ WorldAddAgent
    \/ WorldUpdateAgentPosition
    \/ WorldRemoveAgent
    \/ Resume

SpecWorld == (SyncInit \/ FirstStartInit) /\ [][WorldNext]_vars

(***************************************************************************)
(* The backend with its ledger: matches and generators are created and      *)
(* claimed on chain, the RPC node lists generators under addresses, the     *)
(* routes set the active match and reconcile, and the world routes add,     *)
(* delete and collect items while passes are in flight.                     *)
(***************************************************************************)
MaxSyncGens == 1
\* addresses the RPC node may list a generator under
HolderAddrs == {"0xaaaaaa01", "0xcccccc03"}
\* gameId of POST /api/admin/set-game: the match, or an id that names none
GameIds == {1, 2}
\* the body of POST /world/items
PostedItems ==
    {[name |-> "Campfire", position |-> <<10, 20>>, imageUrl |-> "/old.png",
      spriteSheet |-> Undefined, size |-> 6, interactive |-> TRUE,
      description |-> Undefined]}
\* itemId of DELETE /world/items/:itemId and of POST /world/items/:itemId/collect
ItemIds == {"uuid-2", "uuid-4"}

SyncCreateMatch ==
    /\ UNCHANGED <<browser, calls>>
    /\ Len(matches) < MaxMatches
    /\ \E ps \in ParticipantLists, a \in InitialAmounts :
           create_match("0xaaaaaa01", ps, a[1], a[2], a[3])
    /\ lastCall' = NoCall
    /\ UNCHANGED <<holder, suiGameService, esService, agents, items, uuids>>

\* create_generators, one generator a call: Wood first, Emerald second
SyncCreateGenerators ==
    /\ UNCHANGED <<browser, calls>>
    /\ Len(generators) < MaxSyncGens
    /\ \E g \in 1..Len(matches) :
           IF Len(generators) = 0
           THEN create_generators(matches[g].creator, g, WOOD, << <<10, 20>> >>)
           ELSE create_generators(matches[g].creator, g, 2, << <<30, 40>> >>)
    /\ holder' = [holder EXCEPT !.gens =
                     @ \o [i \in 1..(Len(generators') - Len(generators)) |-> Shared]]
    /\ lastCall' = NoCall
    /\ UNCHANGED <<suiGameService, esService, agents, items, uuids>>

SyncClaimGenerator ==
    /\ UNCHANGED <<browser, calls>>
    /\ \E g \in 1..Len(matches), n \in 1..Len(generators) :
           claim_generator(matches[g].participants[1], g, n)
    /\ lastCall' = NoCall
    /\ UNCHANGED <<holder, suiGameService, esService, agents, items, uuids>>

\* the RPC node's index of owned objects, which the backend only reads
RpcLists ==
    /\ UNCHANGED <<browser, calls>>
    /\ \E g \in 1..Len(generators), a \in HolderAddrs :
           holder' = [holder EXCEPT !.gens[g] = a]
    /\ lastCall' = NoCall
    /\ UNCHANGED <<suiGameService, esService, agents, items, uuids>>
    /\ UNCHANGED ledgerVars

\* POST /api/admin/set-game: setCurrentGame, and the pass is called
AdminSetGame ==
    /\ \E gameId \in GameIds :
          /\ suiGameService' = [suiGameService EXCEPT !.currentGameId = gameId]
          /\ Begin(syncGeneratorsToWorld(Call("syncGeneratorsToWorld"), gameId))
    /\ UNCHANGED <<browser, holder, esService, agents, items, uuids>>
    /\ UNCHANGED ledgerVars

\* POST /game/sync
GameSync ==
    /\ Begin(syncGeneratorsToWorld(Call("syncGeneratorsToWorld"),
                                   suiGameService.currentGameId))
    /\ UNCHANGED <<browser, holder, suiGameService, esService, agents, items, uuids>>
    /\ UNCHANGED ledgerVars

\* POST /world/items with name, position and imageUrl in the body: addItem
\* is called and not awaited, and the route answers 201
PostItem ==
    /\ uuids < MaxItems
    /\ \E item \in PostedItems :
          /\ items' = addItem(items, uuids, item @@ [collectedBy |-> Undefined])
          /\ left(IF esService.defined
                  THEN <<promise("addItem", "saveItem",
                                 request("index", "items", uuidv4(uuids + 1),
                                         (item @@ [collectedBy |-> Undefined])
                                            @@ [id |-> uuidv4(uuids + 1)]))>>
                  ELSE <<>>)
    /\ uuids' = uuids + 1
    /\ UNCHANGED <<browser, holder, suiGameService, esService, agents>>
    /\ UNCHANGED ledgerVars

\* DELETE /world/items/:itemId: removeItem is called and not awaited; it
\* awaits deleteItem when the Map held the item and there is an index
DeleteItem ==
    /\ \E itemId \in ItemIds :
          /\ items' = GameWorld_removeItem(items, itemId)
          /\ left(IF esService.defined /\ \E i \in 1..Len(items) : items[i].id = itemId
                  THEN <<promise("removeItem", "deleteItem",
                                 request("delete", "items", itemId, NoAgent))>>
                  ELSE <<>>)
    /\ UNCHANGED <<browser, holder, suiGameService, esService, agents, uuids>>
    /\ UNCHANGED ledgerVars

\* POST /world/items/:itemId/collect for an item that is there, interactive
\* and not collected: collectItem is called and not awaited; with an index
\* it awaits updateItemCollection and addItemToPlayerInventory
CollectItem ==
    /\ \E itemId \in ItemIds, playerId \in PlayerIds :
          /\ \E i \in 1..Len(items) :
                /\ items[i].id = itemId
                /\ items[i].interactive
                /\ ~Truthy(items[i].collectedBy)
          /\ items' = collectItem(items, itemId, playerId)
          /\ left(IF esService.defined
                  THEN <<[promise("collectItem", "updateItemCollection",
                                  request("update", "items", itemId,
                                          [collectedBy |-> playerId,
                                           collectedAt |-> "now"]))
                             EXCEPT !.message = playerId]>>
                  ELSE <<>>)
    /\ UNCHANGED <<browser, holder, suiGameService, esService, agents, uuids>>
    /\ UNCHANGED ledgerVars

\* POST /api/admin/clear-data, a route there is when there is an index
ClearData ==
    /\ esService.defined
    /\ Cardinality(callsOf("clearData")) < MaxClears
    /\ Begin([Call("clearData") EXCEPT
                 !.fn = "clearAllData", !.pc = "deleteByQuery", !.k = 1,
                 !.request = request("deleteByQuery", Indices[1], "", NoAgent)])
    /\ UNCHANGED <<browser, holder, suiGameService, esService, agents, items, uuids>>
    /\ UNCHANGED ledgerVars

SyncNext ==
    \/ SyncCreateMatch
    \/ SyncCreateGenerators
    \/ SyncClaimGenerator
    \/ RpcLists
    \/ AdminSetGame
    \/ GameSync
    \/ PostItem
    \/ DeleteItem
    \/ CollectItem
    \/ Resume

SpecSync == SyncInit /\ [][SyncNext]_vars

\* the backend with its ledger and with its index: the saves of the passes
\* and of the world routes are answered by the index, or fail
PersistentNext ==
    \/ SyncCreateMatch
    \/ SyncCreateGenerators
    \/ RpcLists
    \/ AdminSetGame
    \/ GameSync
    \/ PostItem
    \/ DeleteItem
    \/ CollectItem
    \/ Resume

SpecPersistence == StoredInit /\ [][PersistentNext]_vars

(***************************************************************************)
(* The backend serving contexts: agents are created, the ledger client      *)
(* creates the match, generators and proposals are made on chain, the RPC   *)
(* node lists them under addresses, players are stored and moved, and       *)
(* contexts are asked for.                                                  *)
(***************************************************************************)
MaxCtxGens == 1
\* contexts that are built at a time
MaxContexts == 1
ContextRanges == {30}
\* addresses the RPC node may list a generator or a proposal under
CtxHolderAddrs == {"0xaaaaaa01"}
\* position of PATCH /players/:playerId/position
PlayerPositions == {<<90, 90>>}
AddAgent ==
    /\ Len(agents) < (IF esService.defined THEN MaxStoredAgents ELSE MaxAgents)
    /\ addAgent(AgentNames[Len(agents) + 1], AgentDescriptions[Len(agents) + 1],
                AgentAddrs[Len(agents) + 1], <<30, 30>>)
    /\ UNCHANGED <<browser, holder, suiGameService, items>>
    /\ UNCHANGED ledgerVars

\* SuiGameService.createMatch: the transaction is executed and the call
\* awaits its answer
createMatch(creator, participants, initialWood, initialStone, initialEmerald) ==
    /\ create_match(creator, participants, initialWood, initialStone, initialEmerald)
    /\ submitted("createMatch")

CtxCreateMatch ==
    /\ UNCHANGED browser
    /\ suiGameService.defined
    /\ Len(matches) < MaxMatches
    /\ \E ps \in ParticipantLists, a \in InitialAmounts :
           createMatch("0xaaaaaa01", ps, a[1], a[2], a[3])
    /\ UNCHANGED <<holder, suiGameService, esService, agents, items, uuids>>

CtxCreateGenerators ==
    /\ UNCHANGED <<browser, calls>>
    /\ Len(generators) < MaxCtxGens
    /\ \E g \in 1..Len(matches) :
           create_generators(matches[g].creator, g, WOOD,
                             <<GeneratorPositions[Len(generators) + 1]>>)
    /\ holder' = [holder EXCEPT !.gens =
                     @ \o [i \in 1..(Len(generators') - Len(generators)) |-> Shared]]
    /\ lastCall' = NoCall
    /\ UNCHANGED <<suiGameService, esService, agents, items, uuids>>

\* the RPC node's index of owned objects, which the backend only reads
CtxRpcLists ==
    /\ UNCHANGED <<browser, calls>>
    /\ \E g \in 1..Len(generators), a \in CtxHolderAddrs :
           holder' = [holder EXCEPT !.gens[g] = a]
    /\ lastCall' = NoCall
    /\ UNCHANGED <<suiGameService, esService, agents, items, uuids>>
    /\ UNCHANGED ledgerVars

\* POST /players with a position and a wallet address in the body: savePlayer
\* is awaited
PostPlayer ==
    /\ esService.defined
    /\ Len(esService.players) + Cardinality(callsOf("postPlayer")) < MaxPlayers
    /\ Begin([Call("postPlayer") EXCEPT
                 !.fn = "route", !.pc = "savePlayer",
                 !.request =
                     request("index", "players",
                             "player-" \o ToString(Len(esService.players) + 1),
                             [id |-> "player-" \o ToString(Len(esService.players) + 1),
                              name |-> "Player", position |-> <<32, 30>>,
                              suiAddress |-> "0xaaaaaa01"])])
    /\ UNCHANGED <<browser, holder, suiGameService, esService, agents, items, uuids>>
    /\ UNCHANGED ledgerVars

\* PATCH /players/:playerId/position: updatePlayerPosition is awaited
PatchPlayerPosition ==
    /\ esService.defined
    /\ callsOf("patchPlayerPosition") = {}
    /\ \E playerId \in PlayerIds, position \in PlayerPositions :
          Begin([Call("patchPlayerPosition") EXCEPT
                    !.fn = "route", !.pc = "updatePlayerPosition",
                    !.message = playerId,
                    !.request = request("update", "players", playerId,
                                        [position |-> position])])
    /\ UNCHANGED <<browser, holder, suiGameService, esService, agents, items, uuids>>
    /\ UNCHANGED ledgerVars

\* PATCH /players/:playerId with a name in the body: getPlayer is awaited
PatchPlayer ==
    /\ esService.defined
    /\ callsOf("patchPlayer") = {}
    /\ \E playerId \in PlayerIds :
          Begin([Call("patchPlayer") EXCEPT !.fn = "route", !.pc = "getPlayer",
                                            !.message = playerId])
    /\ UNCHANGED <<browser, holder, suiGameService, esService, agents, items, uuids>>
    /\ UNCHANGED ledgerVars

\* a context is asked for while fewer than MaxContexts are being built
contextBegun(c) ==
    /\ over(c) \/ Cardinality({f \in 1..Len(calls) :
                      calls[f].op \in {"generateAgentContext", "chat"}}) < MaxContexts
    /\ Begin(c)

\* GET /agents/:agentId/context for an agent the world holds
GenerateAgentContext ==
    /\ \E i \in 1..Len(agents), contextRange \in ContextRanges :
           contextBegun(generateAgentContext(
               [Call("generateAgentContext") EXCEPT !.agent = agents[i],
                                                    !.contextRange = contextRange]))
    /\ UNCHANGED <<browser, holder, suiGameService, esService, agents, items, uuids>>
    /\ UNCHANGED ledgerVars

CtxNext ==
    \/ AddAgent
    \/ CtxCreateMatch
    \/ CtxCreateGenerators
    \/ CtxRpcLists
    \/ PostPlayer
    \/ PatchPlayerPosition
    \/ PatchPlayer
    \/ GenerateAgentContext
    \/ Resume

SpecCtx == CtxInit /\ [][CtxNext]_vars

\* the context service with or without its ledger client
SpecCollaborators == (CtxInit \/ WithoutLedgerInit) /\ [][CtxNext]_vars

(***************************************************************************)
(* The ledger service: its methods send a transaction and reconcile, other  *)
(* clients upgrade and trade, the RPC node lists objects under addresses,   *)
(* and POST /game/sync starts passes next to them.                          *)
(***************************************************************************)
MaxSvcMatches == 2
MaxSvcGens == 1
MaxSvcItems == 4
\* how many calls of the service that execute a transaction are in flight
\* at a time
MaxSvcTransactions == 1
\* the calls in flight that execute a transaction
transacting ==
    {f \in 1..Len(calls) :
        calls[f].op \in {"createMatch", "createGenerators", "claimGenerator",
                         "recaptureGenerator"}}
\* participants of the first and of the second match created
SvcParticipantLists == <<<<"0xaaaaaa01", "0xbbbbbb02">>,
                         <<"0xaaaaaa01", "0xbbbbbb02", "0xaaaaaa01">>>>
SvcHolderAddrs == {"0xaaaaaa01"}

\* SuiGameService.createGenerators
createGenerators(creator, gameId, resourceType, positions) ==
    /\ create_generators(creator, gameId, resourceType, positions)
    /\ holder' = [holder EXCEPT !.gens =
                     @ \o [i \in 1..(Len(generators') - Len(generators)) |-> Shared]]
    /\ submitted("createGenerators")

\* SuiGameService.claimGenerator
claimGenerator(player, gameId, generatorId) ==
    /\ claim_generator(player, gameId, generatorId)
    /\ holder' = holder
    /\ submitted("claimGenerator")

\* SuiGameService.recaptureGenerator
recaptureGenerator(attacker, gameId, generatorId, attackerResourcesId) ==
    /\ recapture_generator(attacker, gameId, generatorId, attackerResourcesId)
    /\ holder' = holder
    /\ submitted("recaptureGenerator")

SvcCreateMatch ==
    /\ UNCHANGED browser
    /\ Cardinality(transacting) < MaxSvcTransactions
    /\ Len(matches) < MaxSvcMatches
    /\ LET ps == SvcParticipantLists[IF Len(matches) = 0 THEN 1 ELSE 2]
       IN createMatch(ps[1], ps, 100, 100, 50)
    /\ UNCHANGED <<holder, suiGameService, esService, agents, items, uuids>>

SvcCreateGenerators ==
    /\ UNCHANGED browser
    /\ Cardinality(transacting) < MaxSvcTransactions
    /\ \E s \in {"0xaaaaaa01", "0xbbbbbb02"}, g \in 1..Len(matches),
          ps \in PositionLists :
           /\ Len(generators) + Len(ps) <= MaxSvcGens
           /\ createGenerators(s, g, WOOD, ps)
    /\ UNCHANGED <<suiGameService, esService, agents, items, uuids>>

SvcClaimGenerator ==
    /\ UNCHANGED browser
    /\ Cardinality(transacting) < MaxSvcTransactions
    /\ \E s \in Senders, g \in 1..Len(matches), n \in 1..Len(generators) :
           claimGenerator(s, g, n)
    /\ UNCHANGED <<suiGameService, esService, agents, items, uuids>>

SvcRecaptureGenerator ==
    /\ UNCHANGED browser
    /\ Cardinality(transacting) < MaxSvcTransactions
    /\ \E s \in {"0xaaaaaa01", "0xbbbbbb02"}, g \in 1..Len(matches),
          n \in 1..Len(generators) :
           /\ firstResources(s) # 0
           /\ recaptureGenerator(s, g, n, firstResources(s))
    /\ UNCHANGED <<suiGameService, esService, agents, items, uuids>>

\* upgrade_generator, sent by the owner's own client
SvcUpgradeGenerator ==
    /\ UNCHANGED <<browser, calls>>
    /\ \E n \in 1..Len(generators) :
           /\ firstResources(generators[n].owner) # 0
           /\ upgrade_generator(generators[n].owner, n, firstResources(generators[n].owner))
    /\ lastCall' = NoCall
    /\ UNCHANGED <<holder, suiGameService, esService, agents, items, uuids>>

\* the RPC node's index of owned objects, which the backend only reads
SvcRpcLists ==
    /\ UNCHANGED <<browser, calls>>
    /\ \E g \in 1..Len(generators), a \in SvcHolderAddrs :
           holder' = [holder EXCEPT !.gens[g] = a]
    /\ lastCall' = NoCall
    /\ UNCHANGED <<suiGameService, esService, agents, items, uuids>>
    /\ UNCHANGED ledgerVars

\* a call is resumed; the world holds at most MaxSvcItems items
SvcResume == Resume /\ uuids' <= MaxSvcItems

ServiceNext ==
    \/ SvcCreateMatch
    \/ SvcCreateGenerators
    \/ SvcClaimGenerator
    \/ SvcRecaptureGenerator
    \/ SvcUpgradeGenerator
    \/ SvcRpcLists
    \/ GameSync
    \/ SvcResume

SpecService == SyncInit /\ [][ServiceNext]_vars

(***************************************************************************)
(* The reads of the ledger client: matches are created through the client, *)
(* generators and proposals are made on chain by the participants' own      *)
(* clients, and the RPC node lists them under addresses.                    *)
(***************************************************************************)
MaxReadMatches == 2
MaxReadGens == 2
MaxReadProposals == 2
ReadHolderAddrs == {"0xaaaaaa01", "0xbbbbbb02"}

ReadCreateMatch ==
    /\ UNCHANGED browser
    /\ Len(matches) < MaxReadMatches
    /\ LET ps == SvcParticipantLists[IF Len(matches) = 0 THEN 1 ELSE 2]
       IN createMatch(ps[1], ps, 100, 100, 50)
    /\ UNCHANGED <<holder, suiGameService, esService, agents, items, uuids>>

ReadCreateGenerators ==
    /\ UNCHANGED <<browser, calls>>
    /\ Len(generators) < MaxReadGens
    /\ \E g \in 1..Len(matches) :
           create_generators(matches[g].creator, g, WOOD,
                             <<GeneratorPositions[Len(generators) + 1]>>)
    /\ holder' = [holder EXCEPT !.gens =
                     @ \o [i \in 1..(Len(generators') - Len(generators)) |-> Shared]]
    /\ lastCall' = NoCall
    /\ UNCHANGED <<suiGameService, esService, agents, items, uuids>>

\* propose_trade, sent by the first participant's client to the second
ReadProposeTrade ==
    /\ UNCHANGED <<browser, calls>>
    /\ Len(proposals) < MaxReadProposals
    /\ \E g \in 1..Len(matches) :
           LET s == matches[g].participants[1]
               t == matches[g].participants[2]
           IN /\ firstResources(s) # 0
              /\ propose_trade(s, g, firstResources(s), t, <<60, 0, 0>>, <<0, 0, 30>>)
    /\ holder' = [holder EXCEPT !.props =
                     @ \o [i \in 1..(Len(proposals') - Len(proposals)) |-> Shared]]
    /\ lastCall' = NoCall
    /\ UNCHANGED <<suiGameService, esService, agents, items, uuids>>

\* the RPC node's index of owned objects, which the backend only reads
ReadRpcLists ==
    /\ UNCHANGED <<browser, calls>>
    /\ \/ \E g \in 1..Len(generators), a \in ReadHolderAddrs :
              holder' = [holder EXCEPT !.gens[g] = a]
       \/ \E p \in 1..Len(holder.props), a \in ReadHolderAddrs :
              holder' = [holder EXCEPT !.props[p] = a]
    /\ lastCall' = NoCall
    /\ UNCHANGED <<suiGameService, esService, agents, items, uuids>>
    /\ UNCHANGED ledgerVars

ReadsNext ==
    \/ ReadCreateMatch
    \/ ReadCreateGenerators
    \/ ReadProposeTrade
    \/ ReadRpcLists
    \/ Resume

SpecReads == SyncInit /\ [][ReadsNext]_vars

(***************************************************************************)
(* Agents placed near to and far from one another, moved, and the contexts  *)
(* built for them; with an index the world is cleared and loaded again      *)
(* while they are built.                                                    *)
(***************************************************************************)
MaxNearAgents == 3
\* where the agents are put, in order of creation
NearPositions == <<<<30, 30>>, <<35, 30>>, <<80, 80>>, <<30, 50>>>>
NearRanges == {5, 20}
\* the ranges asked for while there is an index
StoredRanges == {5}
\* position of PATCH /agents/:agentId/position
NearMoves == {<<35, 30>>}

NearAddAgent ==
    /\ Len(agents) < (IF esService.defined THEN MaxStoredAgents ELSE MaxNearAgents)
    /\ addAgent(AgentNames[Len(agents) + 1], AgentDescriptions[Len(agents) + 1],
                AgentAddrs[Len(agents) + 1], NearPositions[Len(agents) + 1])
    /\ UNCHANGED <<browser, holder, suiGameService, items>>
    /\ UNCHANGED ledgerVars

\* PATCH /agents/:agentId/position
NearMoveAgent ==
    /\ \E i \in 1..Len(agents), position \in NearMoves :
           /\ agents[i].position # position
           /\ updateAgentPosition(i, position)
    /\ UNCHANGED <<browser, holder, suiGameService, items, uuids>>
    /\ UNCHANGED ledgerVars

\* GameWorld.removeAgent, while contexts are built in a world without an
\* index
NearRemoveAgent ==
    /\ ~esService.defined
    /\ \E i \in 1..Len(agents) : removeAgent(i)
    /\ UNCHANGED <<browser, holder, suiGameService, items, uuids>>
    /\ UNCHANGED ledgerVars

\* GET /agents/:agentId/context
NearContext ==
    /\ \E i \in 1..Len(agents),
          contextRange \in (IF esService.defined THEN StoredRanges ELSE NearRanges) :
           contextBegun(generateAgentContext(
               [Call("generateAgentContext") EXCEPT !.agent = agents[i],
                                                    !.contextRange = contextRange]))
    /\ UNCHANGED <<browser, holder, suiGameService, esService, agents, items, uuids>>
    /\ UNCHANGED ledgerVars

NearNext ==
    \/ NearAddAgent
    \/ NearMoveAgent
    \/ NearRemoveAgent
    \/ NearContext
    \/ ClearData
    \/ Resume

SpecNearby == (SyncInit \/ PersistentInit) /\ [][NearNext]_vars

(***************************************************************************)
(* Two agents, the participants of the match, a generator that either may   *)
(* claim, the RPC node listing it under either, and the contexts built for  *)
(* both from near and from far.                                             *)
(***************************************************************************)
MaxOwnAgents == 2
MaxOwnGens == 1
OwnHolderAddrs == {"0xaaaaaa01", "0xbbbbbb02"}
OwnRanges == {20, 30}

OwnAddAgent ==
    /\ Len(agents) < MaxOwnAgents
    /\ \E position \in AgentPositions :
           addAgent(AgentNames[Len(agents) + 1], AgentDescriptions[Len(agents) + 1],
                    AgentAddrs[Len(agents) + 1], position)
    /\ UNCHANGED <<browser, holder, suiGameService, items>>
    /\ UNCHANGED ledgerVars

OwnCreateGenerators ==
    /\ UNCHANGED <<browser, calls>>
    /\ Len(generators) < MaxOwnGens
    /\ \E g \in 1..Len(matches) :
           create_generators(matches[g].creator, g, WOOD,
                             <<GeneratorPositions[Len(generators) + 1]>>)
    /\ holder' = [holder EXCEPT !.gens =
                     @ \o [i \in 1..(Len(generators') - Len(generators)) |-> Shared]]
    /\ lastCall' = NoCall
    /\ UNCHANGED <<suiGameService, esService, agents, items, uuids>>

\* claim_generator, sent by a participant's own client
OwnClaimGenerator ==
    /\ UNCHANGED <<browser, calls>>
    /\ \E g \in 1..Len(matches), n \in 1..Len(generators), d \in {1, 2} :
           claim_generator(matches[g].participants[d], g, n)
    /\ lastCall' = NoCall
    /\ UNCHANGED <<holder, suiGameService, esService, agents, items, uuids>>

\* the RPC node lists the generator under one of the two participants
OwnRpcLists ==
    /\ UNCHANGED <<browser, calls>>
    /\ \E g \in 1..Len(generators), a \in OwnHolderAddrs :
           holder' = [holder EXCEPT !.gens[g] = a]
    /\ lastCall' = NoCall
    /\ UNCHANGED <<suiGameService, esService, agents, items, uuids>>
    /\ UNCHANGED ledgerVars

\* GET /agents/:agentId/context
OwnContext ==
    /\ \E i \in 1..Len(agents), contextRange \in OwnRanges :
           contextBegun(generateAgentContext(
               [Call("generateAgentContext") EXCEPT !.agent = agents[i],
                                                    !.contextRange = contextRange]))
    /\ UNCHANGED <<browser, holder, suiGameService, esService, agents, items, uuids>>
    /\ UNCHANGED ledgerVars

OwnershipNext ==
    \/ OwnAddAgent
    \/ CtxCreateMatch
    \/ OwnCreateGenerators
    \/ OwnClaimGenerator
    \/ OwnRpcLists
    \/ OwnContext
    \/ Resume

SpecOwnership == SyncInit /\ [][OwnershipNext]_vars

(***************************************************************************)
(* Three agents, two of them the participants of the match, proposals in    *)
(* both directions between the two, and the contexts built for all three.   *)
(***************************************************************************)
MaxTradeAgents == 3
MaxTradeProposals == 2
TradeHolderAddrs == {"0xaaaaaa01", "0xbbbbbb02"}

TradeAddAgent ==
    /\ Len(agents) < MaxTradeAgents
    /\ addAgent(AgentNames[Len(agents) + 1], AgentDescriptions[Len(agents) + 1],
                AgentAddrs[Len(agents) + 1], <<30, 30>>)
    /\ UNCHANGED <<browser, holder, suiGameService, items>>
    /\ UNCHANGED ledgerVars

\* propose_trade between the first two participants, in either direction
TradePropose ==
    /\ UNCHANGED <<browser, calls>>
    /\ Len(proposals) < MaxTradeProposals
    /\ \E g \in 1..Len(matches), d \in {1, 2} :
           LET s == matches[g].participants[d]
               t == matches[g].participants[3 - d]
           IN /\ firstResources(s) # 0
              /\ propose_trade(s, g, firstResources(s), t, <<60, 0, 0>>, <<0, 0, 30>>)
    /\ holder' = [holder EXCEPT !.props =
                     @ \o [i \in 1..(Len(proposals') - Len(proposals)) |-> Shared]]
    /\ lastCall' = NoCall
    /\ UNCHANGED <<suiGameService, esService, agents, items, uuids>>

\* the RPC node lists a proposal under one of the two parties
TradeRpcLists ==
    /\ UNCHANGED <<browser, calls>>
    /\ \E p \in 1..Len(holder.props), a \in TradeHolderAddrs :
           holder' = [holder EXCEPT !.props[p] = a]
    /\ lastCall' = NoCall
    /\ UNCHANGED <<suiGameService, esService, agents, items, uuids>>
    /\ UNCHANGED ledgerVars

\* GET /agents/:agentId/context
TradeContext ==
    /\ \E i \in 1..Len(agents) :
           contextBegun(generateAgentContext(
               [Call("generateAgentContext") EXCEPT !.agent = agents[i],
                                                    !.contextRange = 20]))
    /\ UNCHANGED <<browser, holder, suiGameService, esService, agents, items, uuids>>
    /\ UNCHANGED ledgerVars

TradesNext ==
    \/ TradeAddAgent
    \/ CtxCreateMatch
    \/ TradePropose
    \/ TradeRpcLists
    \/ TradeContext
    \/ Resume

SpecTrades == SyncInit /\ [][TradesNext]_vars

(***************************************************************************)
(* POST /agents/:agentId/actions/recapture-generator                        *)
(***************************************************************************)
MaxRouteAgents == 2
MaxRouteGens == 1
\* how many requests of the route are in flight at a time
MaxRouteCalls == 1

\* the value of the agent's "human" memory block: empty, or
\* "attacked by 0xaaaaaa"
HumanMemories ==
    {<<>>,
     <<"a", "t", "t", "a", "c", "k", "e", "d", " ", "b", "y", " ",
       "0", "x", "a", "a", "a", "a", "a", "a">>}

RouteAddAgent ==
    /\ Len(agents) < MaxRouteAgents
    /\ addAgent(AgentNames[Len(agents) + 1], AgentDescriptions[Len(agents) + 1],
                AgentAddrs[Len(agents) + 1], <<30, 30>>)
    /\ UNCHANGED <<browser, holder, suiGameService, items>>
    /\ UNCHANGED ledgerVars

RouteCreateMatch ==
    /\ UNCHANGED browser
    /\ Len(matches) < MaxMatches
    /\ \E ps \in ParticipantLists : createMatch(ps[1], ps, 100, 100, 50)
    /\ UNCHANGED <<holder, suiGameService, esService, agents, items, uuids>>

RouteCreateGenerators ==
    /\ UNCHANGED <<browser, calls>>
    /\ Len(generators) < MaxRouteGens
    /\ \E g \in 1..Len(matches) :
           create_generators(matches[g].creator, g, WOOD,
                             <<GeneratorPositions[Len(generators) + 1]>>)
    /\ holder' = [holder EXCEPT !.gens =
                     @ \o [i \in 1..(Len(generators') - Len(generators)) |-> Shared]]
    /\ lastCall' = NoCall
    /\ UNCHANGED <<suiGameService, esService, agents, items, uuids>>

RouteClaimGenerator ==
    /\ UNCHANGED <<browser, calls>>
    /\ \E g \in 1..Len(matches), n \in 1..Len(generators), d \in {1, 2} :
           claim_generator(matches[g].participants[d], g, n)
    /\ lastCall' = NoCall
    /\ UNCHANGED <<holder, suiGameService, esService, agents, items, uuids>>

\* the RPC node lists a generator under the first participant, or under nobody
RouteRpcLists ==
    /\ UNCHANGED <<browser, calls>>
    /\ \E g \in 1..Len(generators), a \in {"0xaaaaaa01", Shared} :
           holder' = [holder EXCEPT !.gens[g] = a]
    /\ lastCall' = NoCall
    /\ UNCHANGED <<suiGameService, esService, agents, items, uuids>>
    /\ UNCHANGED ledgerVars

\* the handler up to its first await: agentId 0 names no agent, generatorId
\* 0 is a missing field, reason says whether the body carries one, and
\* humanMemory is what getMemoryBlocks will answer
recaptureGeneratorRoute(agentId, generatorId, reason, humanMemory) ==
    LET c == [Call("recaptureRoute") EXCEPT !.fn = "route", !.reason = reason,
                                            !.generatorId = generatorId,
                                            !.humanMemory = humanMemory,
                                            !.gameId = suiGameService.currentGameId]
    IN IF agentId = 0 THEN answer(c, 404)
       ELSE IF suiGameService.currentGameId = 0 THEN answer(c, 400)
       ELSE IF generatorId = 0 THEN answer(c, 400)
       ELSE [c EXCEPT !.agent = agents[agentId], !.pc = "getPlayerResources"]

RouteRecapture ==
    /\ Cardinality({f \in 1..Len(calls) : calls[f].op = "recaptureRoute"}) < MaxRouteCalls
    /\ \E agentId \in 0..Len(agents), generatorId \in 0..Len(generators),
          reason \in BOOLEAN, humanMemory \in HumanMemories :
           Begin(recaptureGeneratorRoute(agentId, generatorId, reason, humanMemory))
    /\ UNCHANGED <<browser, holder, suiGameService, esService, agents, items, uuids>>
    /\ UNCHANGED ledgerVars

\* the chain executes the recapture the route has submitted
RouteExecute == \E f \in 1..Len(calls) : Execute(f)

RouteNext ==
    \/ RouteAddAgent
    \/ RouteCreateMatch
    \/ RouteCreateGenerators
    \/ RouteClaimGenerator
    \/ RouteRpcLists
    \/ RouteRecapture
    \/ RouteExecute
    \/ Resume

SpecRoute == SyncInit /\ [][RouteNext]_vars

(***************************************************************************)
(* POST /agents/:agentId/chat                                               *)
(***************************************************************************)
\* the route handler up to its first await; agentId 0 names no agent
chatRoute(agentId, message, patch, post) ==
    LET c == [Call("chat") EXCEPT !.message = message,
                                  !.patch = patch, !.post = post,
                                  !.contextRange = 30]
    IN IF ~Truthy(message) THEN answer(c, 400)
       ELSE IF agentId = 0 THEN answer(c, 404)
       ELSE generateAgentContext([c EXCEPT !.agent = agents[agentId]])

ChatAddAgent ==
    /\ Len(agents) < MaxChatAgents
    /\ \E position \in ChatPositions :
           addAgent(AgentNames[Len(agents) + 1], AgentDescriptions[Len(agents) + 1],
                    AgentAddrs[Len(agents) + 1], position)
    /\ UNCHANGED <<browser, holder, suiGameService, items>>
    /\ UNCHANGED ledgerVars

ChatWithAgent ==
    /\ \E agentId \in 0..Len(agents), message \in ChatMessages,
          patch \in PatchStatuses, post \in PostStatuses :
           contextBegun(chatRoute(agentId, message, patch, post))
    /\ UNCHANGED <<browser, holder, suiGameService, esService, agents, items, uuids>>
    /\ UNCHANGED ledgerVars

ChatNext ==
    \/ ChatAddAgent
    \/ ChatWithAgent
    \/ Resume

SpecChat == SyncInit /\ [][ChatNext]_vars

(***************************************************************************)
(* The chat dialog of the browser client: an agent is selected, messages    *)
(* are sent, the dialog is closed or cleared, and the replies arrive when   *)
(* the backend answers.                                                     *)
(***************************************************************************)
MaxClientHistory == 3
ClientAgentIds == {"agent-a", "agent-b"}
ClientMessages == {"hi"}
\* how a request ends: success true, success missing, or fetch rejects
ClientOutcomes == {"success", "failure", "error"}

\* the state changes of the client leave the backend and the ledger alone
clientOnly ==
    /\ UNCHANGED ledgerVars
    /\ UNCHANGED worldVars
    /\ UNCHANGED calls

\* App.selectAgent
selectAgent(agentId) ==
    LET historicalMessages == loadChatHistory(browser.localStorage, agentId)
    IN browser' = [browser EXCEPT
           !.gameState = [@ EXCEPT !.selectedAgent = agentId,
                                    !.historicalChatHistory = historicalMessages,
                                    !.chatHistory = historicalMessages,
                                    !.currentSessionStart = Len(historicalMessages)]]

\* App.closeChat
closeChat ==
    LET gameState == browser.gameState
    IN browser' = [browser EXCEPT
           !.localStorage =
               IF gameState.selectedAgent # "" /\ Len(gameState.chatHistory) > 0
               THEN saveChatHistory(@, gameState.selectedAgent, gameState.chatHistory)
               ELSE @,
           !.gameState = [@ EXCEPT !.selectedAgent = "", !.chatHistory = <<>>,
                                    !.historicalChatHistory = <<>>,
                                    !.currentSessionStart = 0]]

\* App.clearChatHistory
clearChatHistory ==
    LET gameState == browser.gameState
    IN browser' = [browser EXCEPT
           !.localStorage = removeItem(@, CHAT_HISTORY_PREFIX \o gameState.selectedAgent),
           !.gameState = [@ EXCEPT !.chatHistory = <<>>,
                                    !.historicalChatHistory = <<>>,
                                    !.currentSessionStart = 0]]

\* App.sendMessage up to the fetch: the user's message is shown and the
\* request for the selected agent is in flight
sendMessageStart(message) ==
    LET agentId == browser.gameState.selectedAgent
        userMessage == [role |-> "user", content |-> message]
    IN browser' = [browser EXCEPT
           !.gameState = [@ EXCEPT !.chatHistory = Append(@, userMessage),
                                    !.isLoading = TRUE],
           !.pending = Append(@, [agentId |-> agentId, message |-> message])]

\* App.sendMessage from the answer on, for the i-th request in flight
sendMessageFinish(i, outcome, agentResponse) ==
    LET prev == browser.gameState
        assistantMessage == [role |-> "assistant", content |-> agentResponse]
        newChatHistory == Append(prev.chatHistory, assistantMessage)
        rest == SelectSeq([j \in 1..Len(browser.pending) |->
                              [n |-> j, r |-> browser.pending[j]]],
                          LAMBDA e : e.n # i)
    IN browser' = [browser EXCEPT
           !.pending = [j \in 1..Len(rest) |-> rest[j].r],
           !.localStorage =
               IF outcome = "success" /\ prev.selectedAgent # ""
               THEN saveChatHistory(@, prev.selectedAgent, newChatHistory)
               ELSE @,
           !.gameState =
               IF outcome = "success"
               THEN [@ EXCEPT !.chatHistory = newChatHistory, !.isLoading = FALSE]
               ELSE [@ EXCEPT !.isLoading = FALSE]]

\* a click on an agent of the nearby list
ClientSelectAgent ==
    /\ \E agentId \in ClientAgentIds : selectAgent(agentId)
    /\ clientOnly

\* the dialog is open and is closed
ClientCloseChat ==
    /\ browser.gameState.selectedAgent # ""
    /\ closeChat
    /\ clientOnly

\* the Clear button, shown while the dialog holds messages
ClientClearChatHistory ==
    /\ browser.gameState.selectedAgent # ""
    /\ Len(browser.gameState.chatHistory) > 0
    /\ clearChatHistory
    /\ clientOnly

\* ChatInput.handleSend: the input is not blank and nothing is loading
ClientSendMessage ==
    /\ browser.gameState.selectedAgent # ""
    /\ ~browser.gameState.isLoading
    /\ Len(browser.gameState.chatHistory) + 2 <= MaxClientHistory
    /\ \A i \in 1..Len(browser.localStorage) :
          Len(browser.localStorage[i].value) + 2 <= MaxClientHistory
    /\ \E message \in ClientMessages : sendMessageStart(message)
    /\ clientOnly

\* the backend answers a request in flight
ClientReceiveReply ==
    /\ \E i \in 1..Len(browser.pending), outcome \in ClientOutcomes :
           sendMessageFinish(i, outcome, "reply to " \o browser.pending[i].agentId)
    /\ clientOnly

ClientNext ==
    \/ ClientSelectAgent
    \/ ClientCloseChat
    \/ ClientClearChatHistory
    \/ ClientSendMessage
    \/ ClientReceiveReply

SpecClient == SyncInit /\ [][ClientNext]_vars

(***************************************************************************)
(* Claims about the ledger                                                  *)
(***************************************************************************)

\* what the two parties of a trade hold together, per resource
PairTotal(rs, a, b) ==
    <<rs[a].wood + rs[b].wood, rs[a].stone + rs[b].stone,
      rs[a].emerald + rs[b].emerald>>

\* C8: accept_trade is all-or-nothing.  A successful accept_trade was sent by
\* the proposal's target, found both parties holding what they must give,
\* moved exactly the offered amounts from the proposer's PlayerResources to
\* the accepter's and exactly the requested amounts back, left the sum of
\* each resource over the two parties and every other PlayerResources
\* unchanged, and destroyed the proposal; an aborted accept_trade changed no
\* balance and no proposal.
C8_AcceptTradeAllOrNothing ==
    [][lastTx'.op = "accept_trade" =>
        IF lastTx'.ok
        THEN LET p  == proposals[lastTx'.prop]
                 pr == lastTx'.res
                 ar == lastTx'.res2
             IN /\ p.live
                /\ lastTx'.sender = p.target
                /\ resources[pr].wood >= p.wood_offered
                /\ resources[pr].stone >= p.stone_offered
                /\ resources[pr].emerald >= p.emerald_offered
                /\ resources[ar].wood >= p.wood_requested
                /\ resources[ar].stone >= p.stone_requested
                /\ resources[ar].emerald >= p.emerald_requested
                /\ resources[pr].wood - resources'[pr].wood
                       = p.wood_offered - p.wood_requested
                /\ resources[pr].stone - resources'[pr].stone
                       = p.stone_offered - p.stone_requested
                /\ resources[pr].emerald - resources'[pr].emerald
                       = p.emerald_offered - p.emerald_requested
                /\ resources'[ar].wood - resources[ar].wood
                       = p.wood_offered - p.wood_requested
                /\ resources'[ar].stone - resources[ar].stone
                       = p.stone_offered - p.stone_requested
                /\ resources'[ar].emerald - resources[ar].emerald
                       = p.emerald_offered - p.emerald_requested
                /\ PairTotal(resources', pr, ar) = PairTotal(resources, pr, ar)
                /\ \A r \in 1..Len(resources) :
                       r \notin {pr, ar} => resources'[r] = resources[r]
                /\ ~proposals'[lastTx'.prop].live
        ELSE UNCHANGED <<resources, proposals>>]_vars

\* C8 witness: a trade with a non-empty offer and a non-empty request was accepted
C8_Witness ==
    /\ lastTx.op = "accept_trade"
    /\ lastTx.ok
    /\ proposals[lastTx.prop].wood_offered > 0
    /\ proposals[lastTx.prop].emerald_requested > 0
    /\ resources[lastTx.res].wood = 40
    /\ resources[lastTx.res2].wood = 160

\* C9: a TradeProposal terminates at most once.  A successful accept_trade
\* or cancel_trade acts on a proposal that exists and leaves it deleted; a
\* deleted proposal stays deleted and no later accept_trade or cancel_trade
\* on it succeeds or changes a balance; a successful cancel_trade was sent by
\* the proposer or the target and changes no PlayerResources.
C9_ProposalTerminatesOnce ==
    [][/\ \A i \in 1..Len(proposals) :
              ~proposals[i].live =>
                  /\ ~proposals'[i].live
                  /\ ~(lastTx'.ok /\ lastTx'.prop = i
                         /\ lastTx'.op \in {"accept_trade", "cancel_trade"})
       /\ lastTx'.op \in {"accept_trade", "cancel_trade"} /\ lastTx'.ok =>
              /\ proposals[lastTx'.prop].live
              /\ ~proposals'[lastTx'.prop].live
       /\ lastTx'.op \in {"accept_trade", "cancel_trade"} /\ ~lastTx'.ok =>
              UNCHANGED <<resources, proposals>>
       /\ lastTx'.op = "cancel_trade" =>
              /\ resources' = resources
              /\ lastTx'.ok =>
                     lastTx'.sender \in {proposals[lastTx'.prop].proposer,
                                         proposals[lastTx'.prop].target}]_vars

\* C9 witness: one proposal was accepted, another cancelled, and a further
\* accept_trade or cancel_trade on a deleted proposal was turned away
C9_Witness ==
    /\ Len(proposals) = 2
    /\ \A i \in 1..2 : ~proposals[i].live
    /\ lastTx.op \in {"accept_trade", "cancel_trade"}
    /\ lastTx.code = REJECTED
    /\ resources[1].wood # 100

\* C10: every generator has unclaimed <= max_cap, an unclaimed generator
\* (owner 0x0) has unclaimed = 0, and a claim_resources or
\* recapture_generator credits at most the generator's max_cap, which is
\* exactly what the credited counter grows by.
GeneratorsWithinCap ==
    \A g \in 1..Len(generators) :
        /\ generators[g].unclaimed <= generators[g].max_cap
        /\ generators[g].owner = ZeroAddr => generators[g].unclaimed = 0

Balance(r, resource_type) ==
    IF resource_type = 0 THEN r.wood
    ELSE IF resource_type = 1 THEN r.stone
    ELSE r.emerald

C10_UnclaimedWithinCap ==
    /\ []GeneratorsWithinCap
    /\ [][lastTx'.op \in {"claim_resources", "recapture_generator"} /\ lastTx'.ok =>
            LET g == generators[lastTx'.gen]
            IN /\ lastTx'.credited <= g.max_cap
               /\ Balance(resources'[lastTx'.res], g.resource_type)
                     = Balance(resources[lastTx'.res], g.resource_type)
                        + lastTx'.credited]_vars

\* C10 witness: 102 intervals at rate 10 were settled as max_cap = 1000
C10_Witness ==
    /\ lastTx.op = "claim_resources"
    /\ lastTx.ok
    /\ lastTx.credited = BASE_CAP
    /\ generators[lastTx.gen].level = 0
    /\ clock = 6150000

(***************************************************************************)
(* Claims about the reconciliation of generators into the world             *)
(***************************************************************************)

\* what a pass leaves of the items its when it is resumed from c on with
\* every read answered and nothing else running in between
RECURSIVE passAlone(_, _, _)
passAlone(c, its, n) ==
    IF over(c) THEN [items |-> its, uuids |-> n, gens |-> c.gens]
    ELSE LET out == resumeSync(c, its, n, FALSE)
         IN passAlone(out.call, out.items, out.uuids)

\* a pass called now
passCalled ==
    syncGeneratorsToWorld(Call("syncGeneratorsToWorld"), suiGameService.currentGameId)

\* C1: reconciliation is idempotent.  With an active match set, a pass run
\* on the items a first pass has left, over the same ledger, leaves them
\* exactly as they were.
C1_SyncIdempotent ==
    suiGameService.currentGameId # 0 =>
        LET first  == passAlone(passCalled, items, uuids)
            second == passAlone(passCalled, first.items, first.uuids)
        IN second.items = first.items

\* C2: after a pass that has returned, every generator it enumerated has
\* exactly one projection in the world, the item whose id is "gen_" +
\* objectId.
C2_OneProjectionPerGenerator ==
    (lastCall.op = "sync" /\ ~lastCall.threw) =>
        \A k \in 1..Len(lastCall.gens) :
            Cardinality({i \in 1..Len(items) :
                items[i].id = "gen_" \o lastCall.gens[k].objectId}) = 1

(***************************************************************************)
(* Claims about the context service                                         *)
(***************************************************************************)

\* block occurs in text as consecutive lines
HasBlock(text, block) ==
    \E i \in 0..(Len(text) - Len(block)) : SubSeq(text, i + 1, i + Len(block)) = block

\* C3: with the player index and the ledger client both undefined,
\* generateAgentContext returns a context that holds the self-status section
\* of the agent and, for resources, nearby players, nearby generators and
\* trade proposals, the section's "not available" line.
C3_PlaceholdersWithoutCollaborators ==
    (/\ lastCall.op = "generateAgentContext"
     /\ ~esService.defined
     /\ ~suiGameService.defined)
    => LET c == lastCall.context
       IN /\ c.selfInfo[1] = "YOUR CURRENT STATUS:"
          /\ c.selfInfo[2] = "- Name: " \o lastCall.agent.name
          /\ c.selfInfo[5] = "- Your Sui Wallet Address: " \o lastCall.agent.suiAddress
          /\ c.resourcesInfo = <<"YOUR RESOURCES:", "- Resource tracking not available">>
          /\ c.nearbyPlayers = <<"NEARBY PLAYERS:", "- Player tracking not available">>
          /\ c.nearbyGenerators =
                 <<"NEARBY GENERATORS:", "- Generator tracking not available">>
          /\ c.tradeProposals = <<"TRADE PROPOSALS:", "- Trading not available">>
          /\ \A s \in {c.selfInfo, c.resourcesInfo, c.nearbyPlayers,
                       c.nearbyGenerators, c.tradeProposals} :
                 HasBlock(c.fullContext, s)

\* a context built for the second of two agents with no collaborator at all
C3_Witness ==
    /\ lastCall.op = "generateAgentContext"
    /\ ~esService.defined
    /\ ~suiGameService.defined
    /\ Len(agents) = 2
    /\ lastCall.agent = agents[2]
    /\ Len(lastCall.context.fullContext) > 8

\* C4: when a read of the ledger behind the nearby-generators section or
\* behind the trade-proposals section throws, the section is its
\* "Error loading ..." line.
C4_FailedReadShowsError ==
    lastCall.op = "generateAgentContext"
    => /\ "generators" \in lastCall.failed =>
              lastCall.context.nearbyGenerators =
                  <<"NEARBY GENERATORS:", "- Error loading generator information">>
       /\ "proposals" \in lastCall.failed =>
              lastCall.context.tradeProposals =
                  <<"TRADE PROPOSALS:", "- Error loading trade information">>

\* the headers of the eight sections, in the order of the context
SectionHeaders ==
    <<"YOUR CURRENT STATUS:", "YOUR RESOURCES:", "NEARBY NPCs:", "NEARBY PLAYERS:",
      "NEARBY GENERATORS:", "NEARBY ITEMS:", "TRADE PROPOSALS:", "WORLD INFORMATION:">>

\* C5: whatever collaborators are present, absent or failing, the full
\* context holds each of the eight sections once, in the order self status,
\* resources, nearby agents, nearby players, nearby generators, nearby items,
\* trade proposals, world summary.
C5_EightSectionsInOrder ==
    lastCall.op = "generateAgentContext" =>
        LET c == lastCall.context
            headers == {SectionHeaders[i] : i \in 1..Len(SectionHeaders)}
            sections == <<c.selfInfo, c.resourcesInfo, c.nearbyAgents, c.nearbyPlayers,
                          c.nearbyGenerators, c.nearbyItems, c.tradeProposals,
                          c.worldInfo>>
        IN /\ SelectSeq(c.fullContext, LAMBDA line : line \in headers) = SectionHeaders
           /\ \A i \in 1..Len(sections) :
                  /\ sections[i][1] = SectionHeaders[i]
                  /\ HasBlock(c.fullContext, sections[i])

\* a context built while both collaborators are there, in a match that has
\* a generator: the resources of the agent were read for its status, and
\* the read of the players, the enumeration of the generators and the
\* second read of the resources failed
C5_Witness ==
    /\ lastCall.op = "generateAgentContext"
    /\ esService.defined
    /\ suiGameService.defined
    /\ suiGameService.currentGameId # 0
    /\ Len(generators) > 0
    /\ lastCall.failed = {"players", "generators", "resources"}
    /\ lastCall.context.nearbyPlayers =
          <<"NEARBY PLAYERS:", "- Error loading player information">>
    /\ lastCall.context.resourcesInfo = <<"YOUR RESOURCES:", "- Error loading resources">>

\* C6: getDirection(p, p) returns the fallback label "nearby", for every
\* position p.
C6_SamePointIsNearby ==
    (lastCall.op = "getDirection" /\ lastCall.from = lastCall.to)
        => lastCall.result = "nearby"

\* what getDirection answers wherever it is asked: the angle of (dy, dx) in
\* eighths, East for the point itself
DirectionsAreCompassLabels ==
    lastCall.op = "getDirection" =>
        /\ lastCall.result # "nearby"
        /\ (lastCall.from = lastCall.to => lastCall.result = "to the East")
        /\ (lastCall.to[1] = lastCall.from[1] /\ lastCall.to[2] > lastCall.from[2]
               => lastCall.result = "to the South")
        /\ (lastCall.to[1] < lastCall.from[1] /\ lastCall.to[2] = lastCall.from[2]
               => lastCall.result = "to the West")
        /\ (lastCall.to[1] - lastCall.from[1] = lastCall.from[2] - lastCall.to[2]
               /\ lastCall.to[1] > lastCall.from[1]
               => lastCall.result = "to the Northeast")

\* C7: shouldRecaptureGenerator answers true exactly when the owner is not the
\* actor, the owner is not 0x0, the lower-cased memory holds a hostility
\* keyword, and the lower-cased memory holds the first 8 characters of the
\* lower-cased owner address.
C7_RecaptureIffHostileOwner ==
    lastCall.op = "shouldRecaptureGenerator" =>
        LET memoryLower == toLowerCase(lastCall.agentMemory)
            prefix == slice(toLowerCase(lastCall.owner), 8)
        IN lastCall.result =
              (/\ lastCall.owner # lastCall.agentAddress
               /\ lastCall.owner # <<"0", "x", "0">>
               /\ \E k \in 1..Len(hostileKeywords) :
                      includes(memoryLower, hostileKeywords[k])
               /\ includes(memoryLower, prefix))

\* a memory in capitals that names an enemy and the owner's prefix makes the
\* answer true
C7_Witness ==
    /\ lastCall.op = "shouldRecaptureGenerator"
    /\ lastCall.result = TRUE
    /\ lastCall.owner = <<"0", "x", "A", "b", "C", "d", "1", "2", "3", "4">>
    /\ lastCall.agentMemory =
           <<"E", "N", "E", "M", "Y", "0", "x", "A", "B", "C", "D", "1", "2">>

(***************************************************************************)
(* Claims about generators and balances                                     *)
(***************************************************************************)

\* C11: a generator is created with owner 0x0; a claim_generator that
\* succeeds is sent by a participant, finds the owner 0x0 and makes its
\* sender the owner, changing no other generator; a claim_generator by a
\* participant when every generator is claimed aborts with
\* E_GENERATOR_OCCUPIED; an aborted claim changes nothing; and in no step
\* does an owner go back to 0x0.
C11_FirstClaimerOnly ==
    [][/\ (lastTx'.op = "create_generators" /\ lastTx'.ok) =>
              \A g \in (Len(generators) + 1)..Len(generators') :
                  generators'[g].owner = ZeroAddr
       /\ (lastTx'.op = "claim_generator" /\ lastTx'.ok) =>
              /\ generators[lastTx'.gen].owner = ZeroAddr
              /\ generators'[lastTx'.gen].owner = lastTx'.sender
              /\ \E m \in 1..Len(matches) :
                     contains(matches[m].participants, lastTx'.sender)
              /\ \A g \in 1..Len(generators) :
                     g # lastTx'.gen => generators'[g] = generators[g]
       /\ (lastTx'.op = "claim_generator" /\ ~lastTx'.ok) =>
              /\ generators' = generators
              /\ resources' = resources
       /\ (/\ lastTx'.op = "claim_generator"
           /\ \A g \in 1..Len(generators) : generators[g].owner # ZeroAddr
           /\ \A m \in 1..Len(matches) :
                  contains(matches[m].participants, lastTx'.sender)) =>
              /\ ~lastTx'.ok
              /\ lastTx'.code = E_GENERATOR_OCCUPIED
       /\ \A g \in 1..Len(generators) :
              generators[g].owner # ZeroAddr => generators'[g].owner # ZeroAddr
      ]_vars

\* the second participant's claim of a generator the first one holds has
\* aborted with E_GENERATOR_OCCUPIED
C11_Witness ==
    /\ lastTx.op = "claim_generator"
    /\ lastTx.sender = "0xbbbbbb02"
    /\ lastTx.code = E_GENERATOR_OCCUPIED
    /\ Len(generators) > 0
    /\ generators[1].owner = "0xaaaaaa01"

\* C12: a recapture_generator that succeeds is sent by a participant S, finds
\* the generator owned by another address O that is not 0x0, makes S the
\* owner with level 0, rate 10, cap 1000 and unclaimed 0, records S and O as
\* last_recaptured_by and last_recaptured_from, and credits
\* min(unclaimed + intervals * rate, cap), at the old rate and cap, to the
\* counter of the generator's type in a record of S and to no other record;
\* one that aborts changes nothing.
C12_RecaptureCreditsAttacker ==
    [][lastTx'.op = "recapture_generator" =>
          IF lastTx'.ok
          THEN LET g  == generators[lastTx'.gen]
                   g2 == generators'[lastTx'.gen]
                   S  == lastTx'.sender
                   total == g.unclaimed
                              + ((clock - g.last_claim_time) \div GENERATION_INTERVAL_MS)
                                   * g.generation_rate
               IN /\ g.owner # ZeroAddr
                  /\ g.owner # S
                  /\ \E m \in 1..Len(matches) : contains(matches[m].participants, S)
                  /\ g2.owner = S
                  /\ g2.level = 0
                  /\ g2.generation_rate = 10
                  /\ g2.max_cap = 1000
                  /\ g2.unclaimed = 0
                  /\ g2.last_recaptured_by = S
                  /\ g2.last_recaptured_from = g.owner
                  /\ lastTx'.credited = (IF total > g.max_cap THEN g.max_cap ELSE total)
                  /\ Balance(resources'[lastTx'.res], g.resource_type)
                        = Balance(resources[lastTx'.res], g.resource_type)
                             + lastTx'.credited
                  /\ \A r \in 1..Len(resources) :
                         resources'[r] # resources[r] => resources[r].owner = S
          ELSE generators' = generators /\ resources' = resources
      ]_vars

\* C13 as stated: only claim_resources, recapture_generator and accept_trade
\* change a counter of an existing PlayerResources record.
C13_BalancesChangeOnlyBySettlement ==
    [][lastTx'.op \notin {"claim_resources", "recapture_generator", "accept_trade"}
          => \A r \in 1..Len(resources) : resources'[r] = resources[r]]_vars

\* C13, amended: only claim_resources, recapture_generator, accept_trade and
\* upgrade_generator change a counter of an existing PlayerResources record;
\* create_match, create_generators, claim_generator, propose_trade and
\* cancel_trade leave every existing record as it is, and an upgrade takes
\* its cost from the record it was given and touches no other.
C13_BalancesChangeOnlyBySettlementOrUpgrade ==
    [][/\ lastTx'.op \notin {"claim_resources", "recapture_generator", "accept_trade",
                             "upgrade_generator"}
             => \A r \in 1..Len(resources) : resources'[r] = resources[r]
       /\ (lastTx'.op = "upgrade_generator" /\ lastTx'.ok) =>
             LET cost == 100 * (generators[lastTx'.gen].level + 1)
             IN /\ resources'[lastTx'.res].wood = resources[lastTx'.res].wood - cost
                /\ resources'[lastTx'.res].stone = resources[lastTx'.res].stone - cost
                /\ resources'[lastTx'.res].emerald
                      = resources[lastTx'.res].emerald - (cost \div 2)
                /\ \A r \in 1..Len(resources) :
                       r # lastTx'.res => resources'[r] = resources[r]
      ]_vars

\* an upgrade has been paid for, and a proposal stands whose offer is still
\* in the proposer's record
C13_Witness ==
    /\ lastTx.op = "upgrade_generator"
    /\ lastTx.ok
    /\ resources[lastTx.res].wood = 0
    /\ resources[lastTx.res].emerald = 0
    /\ \E p \in 1..Len(proposals) :
           /\ proposals[p].live
           /\ proposals[p].wood_offered = 60
           /\ \E r \in 1..Len(resources) :
                  /\ resources[r].owner = proposals[p].proposer
                  /\ resources[r].wood = 100

\* every generator is unclaimed or owned by a participant of its own match
OwnersAreParticipants ==
    \A g \in 1..Len(generators) :
        \/ generators[g].owner = ZeroAddr
        \/ contains(matches[generators[g].game_id].participants, generators[g].owner)

\* C14: generators are scoped to their match.  A generator's owner is 0x0 or
\* a participant of the match named by its game_id, and a claim_resources
\* or recapture_generator that pays does so into a record of that match.
C14_GeneratorsScopedToMatch ==
    /\ []OwnersAreParticipants
    /\ [][(/\ lastTx'.op \in {"claim_resources", "recapture_generator"}
           /\ lastTx'.ok
           /\ lastTx'.credited > 0)
          => resources[lastTx'.res].game_id = generators[lastTx'.gen].game_id]_vars

(***************************************************************************)
(* Claims about the ledger service                                          *)
(***************************************************************************)
\* a world item without its id
withoutId(it) == [f \in (DOMAIN it) \ {"id"} |-> it[f]]

\* the items two passes may leave of its when they are resumed from a and
\* from b on in any order, with every read answered and an unchanged ledger
RECURSIVE passesInterleaved(_, _, _, _)
passesInterleaved(a, b, its, n) ==
    IF over(a) /\ over(b) THEN {its}
    ELSE (IF over(a) THEN {}
          ELSE LET out == resumeSync(a, its, n, FALSE)
               IN passesInterleaved(out.call, b, out.items, out.uuids))
         \cup
         (IF over(b) THEN {}
          ELSE LET out == resumeSync(b, its, n, FALSE)
               IN passesInterleaved(a, out.call, out.items, out.uuids))

\* C15: two reconciliation passes over the same unchanged ledger whose
\* steps interleave at their await points leave the world items as one pass
\* run alone would: as many items, with the same field values, in whatever
\* order the passes were resumed.
C15_ConcurrentPassesConverge ==
    suiGameService.currentGameId # 0 =>
        LET alone == passAlone(passCalled, items, uuids).items
        IN \A both \in passesInterleaved(passCalled, passCalled, items, uuids) :
              /\ Len(both) = Len(alone)
              /\ {withoutId(both[i]) : i \in 1..Len(both)}
                    = {withoutId(alone[i]) : i \in 1..Len(alone)}

\* C16: when createGenerators, claimGenerator or recaptureGenerator returns
\* with an active match, a pass ran after its transaction, executed or
\* aborted: every enumerated generator carries the owner, level and rate
\* the transaction left on the ledger, as long as no later transaction has
\* changed the generators, and the world holds an item showing what was
\* enumerated; when signAndExecuteTransactionBlock throws, the method
\* throws, nothing is enumerated and the world items are unchanged.
C16_ReconcileAfterTransaction ==
    [][lastCall'.op \in {"createGenerators", "claimGenerator", "recaptureGenerator"} =>
          IF lastCall'.rejected
          THEN lastCall'.threw /\ lastCall'.gens = <<>> /\ items' = items
          ELSE (~lastCall'.threw /\ suiGameService.currentGameId # 0) =>
                    /\ lastCall'.game # 0
                    /\ \A k \in 1..Len(lastCall'.gens) :
                       LET gen == lastCall'.gens[k]
                           g   == CHOOSE n \in 1..Len(generators') :
                                     objectIdOf(n) = gen.objectId
                       IN /\ generators' = lastCall'.after =>
                             /\ gen.owner = generators'[g].owner
                             /\ gen.level = generators'[g].level
                             /\ gen.generationRate = generators'[g].generation_rate
                          /\ \E i \in 1..Len(items') :
                                /\ items'[i].position = <<gen.x, gen.y>>
                                /\ items'[i].description = generatorItem(gen).description
                                /\ items'[i].collectedBy =
                                      (IF gen.owner # "0x0" THEN gen.owner ELSE Undefined)
      ]_vars

\* recaptureGenerator has returned and the generator it took is shown as
\* owned by the attacker
C16_Witness ==
    /\ lastCall.op = "recaptureGenerator"
    /\ ~lastCall.threw
    /\ Len(lastCall.gens) = 1
    /\ lastCall.gens[1].owner = "0xbbbbbb02"
    /\ lastTx.op = "recapture_generator"
    /\ lastTx.ok
    /\ generators = lastCall.after
    /\ \E i \in 1..Len(items) :
          /\ items[i].collectedBy = "0xbbbbbb02"
          /\ items[i].description = generatorItem(lastCall.gens[1]).description

\* what getAllGenerators returns when it is resumed from c on with every
\* read answered from the ledger as it is
RECURSIVE enumerated(_)
enumerated(c) ==
    IF over(c) THEN c.gens ELSE enumerated(getAllGenerators(c, FALSE))

\* the same for getAllTradeProposals
RECURSIVE enumeratedProposals(_)
enumeratedProposals(c) ==
    IF over(c) THEN c.gens ELSE enumeratedProposals(getAllTradeProposals(c, FALSE))

\* C17: getAllGenerators(matchId) returns exactly the generators of the
\* match that are listed under one of its participants, each of them once.
C17_GetAllGeneratorsExact ==
    \A m \in 1..Len(matches) :
        LET out  == enumerated(getObject(Call("getAllGenerators"), "getAllGenerators", m))
            want == {g \in 1..Len(generators) :
                        /\ generators[g].game_id = m
                        /\ contains(matches[m].participants, holder.gens[g])}
        IN /\ {out[i].objectId : i \in 1..Len(out)} = {objectIdOf(g) : g \in want}
           /\ Len(out) = Cardinality(want)

\* C18: every proposal getAllTradeProposals returns, and so every proposal
\* getTradeProposalsForAgent passes to an agent's trade section, belongs to
\* the active match.
C18_ProposalsOfActiveMatchOnly ==
    LET all == enumeratedProposals(
                   getObject(Call("getAllTradeProposals"), "getAllTradeProposals",
                             suiGameService.currentGameId))
    IN /\ \A i \in 1..Len(all) : all[i].gameId = suiGameService.currentGameId
       /\ \A a \in Senders :
              \A i \in 1..Len(getTradeProposalsForAgent(all, a)) :
                  getTradeProposalsForAgent(all, a)[i].gameId
                     = suiGameService.currentGameId

(***************************************************************************)
(* Claims about the sections of a context                                   *)
(***************************************************************************)
\* the agents of all other than the requesting one within Euclidean
\* distance R of it
OthersWithin(all, agent, R) ==
    {i \in 1..Len(all) :
        /\ all[i].id # agent.id
        /\ (all[i].position[1] - agent.position[1])
              * (all[i].position[1] - agent.position[1])
           + (all[i].position[2] - agent.position[2])
              * (all[i].position[2] - agent.position[2]) <= R * R}

\* C19: the nearby-agents section has one bulleted line for every other
\* agent that is within distance R of the requesting agent in the agent Map
\* as it is when the section is built, and no other line (agents that are
\* alike in name, address, description and place have lines that read the
\* same, one each); an
\* agent 5 units away on the same y with larger x is reported with distance
\* 5 and "to the East"; with no agent in range the body is the single line
\* "- None within visible range".
C19_NearbyAgentsExactlyThoseInRange ==
    lastCall.op = "generateAgentContext" =>
       LET all    == lastCall.seen
           me     == lastCall.observer
           sec    == lastCall.context.nearbyAgents
           others == OthersWithin(all, me, lastCall.contextRange)
           start(i) == "- " \o all[i].name \o " (" \o slice8(all[i].suiAddress)
                           \o "...): " \o all[i].description \o " "
           line(i)  == start(i) \o unitsAway(me.position, all[i].position)
       IN /\ sec[1] = "NEARBY NPCs:"
          /\ HasBlock(lastCall.context.fullContext, sec)
          /\ IF others = {}
             THEN sec = <<"NEARBY NPCs:", "- None within visible range">>
             ELSE /\ Len(sec) = 1 + Cardinality(others)
                  /\ \A i \in others :
                        /\ Cardinality({k \in 2..Len(sec) : sec[k] = line(i)})
                              = Cardinality({j \in others : line(j) = line(i)})
                        /\ (/\ all[i].position[2] = me.position[2]
                            /\ all[i].position[1] = me.position[1] + 5)
                           => \E k \in 2..Len(sec) :
                                 sec[k] = start(i) \o "(5 units to the East)"

\* Alice's context at range 5 with Bob 5 units east of her and Carol far
\* away: one line, Bob's
C19_Witness ==
    /\ lastCall.op = "generateAgentContext"
    /\ lastCall.contextRange = 5
    /\ Len(agents) = 3
    /\ lastCall.agent = agents[1]
    /\ agents[1].position = <<30, 30>>
    /\ agents[2].position = <<35, 30>>
    /\ agents[3].position = <<80, 80>>
    /\ lastCall.context.nearbyAgents =
          <<"NEARBY NPCs:", "- Bob (0xbbbbbb...): A wary guard (5 units to the East)">>

\* C20: each line of the nearby-generators section carries one ownership
\* tag: the unclaimed tag when the owner is 0x0, "[OWNED BY YOU]" when the
\* owner is the requesting agent's address, and the owner's 8-character
\* prefix otherwise; the level/rate/unclaimed suffix is there exactly when
\* the owner is not 0x0.
C20_OneOwnershipTagPerGenerator ==
    lastCall.op = "generateAgentContext"
    => LET me   == lastCall.agent
           sec  == lastCall.context.nearbyGenerators
           gens == getGeneratorsNearPosition(lastCall.allGenerators, lastCall.position,
                                             lastCall.contextRange)
           tag(gen) ==
               IF gen.owner = "0x0" THEN "[UNCLAIMED - You can claim this!]"
               ELSE IF gen.owner = me.suiAddress THEN "[OWNED BY YOU]"
               ELSE "[Owned by " \o slice8(gen.owner) \o "...]"
           suffix(gen) ==
               IF gen.owner = "0x0" THEN ""
               ELSE " Level " \o ToString(gen.level) \o ", Rate: "
                      \o ToString(gen.generationRate) \o "/min, Unclaimed: "
                      \o ToString(gen.unclaimed) \o "/" \o ToString(gen.maxCap)
       IN Len(gens) > 0 =>
             /\ Len(sec) >= 1 + Len(gens)
             /\ \A k \in 1..Len(gens) :
                   sec[k + 1] = "- " \o getResourceName(gens[k].resourceType)
                                  \o " Generator " \o tag(gens[k]) \o suffix(gens[k])
                                  \o " " \o unitsAway(me.position, <<gens[k].x, gens[k].y>>)

\* Alice sees the generator she has claimed as her own
C20_Witness ==
    /\ lastCall.op = "generateAgentContext"
    /\ lastCall.agent.suiAddress = "0xaaaaaa01"
    /\ Len(generators) = 1
    /\ generators[1].owner = "0xaaaaaa01"
    /\ Len(lastCall.context.nearbyGenerators) > 2
    /\ lastCall.context.nearbyGenerators[2] =
          "- Wood Generator [OWNED BY YOU] Level 0, Rate: 10/min, Unclaimed: 0/1000 "
             \o unitsAway(lastCall.agent.position, <<10, 20>>)

\* C21: the trade-proposals section of an agent lists exactly the enumerated
\* proposals in which the agent is proposer or target, each once, and none
\* between two other parties; a listed proposal is labelled "YOU PROPOSED"
\* exactly when the agent is its proposer and "PROPOSED TO YOU" when the
\* agent is only its target.
C21_TradeSectionListsOwnProposals ==
    (lastCall.op = "generateAgentContext" /\ suiGameService.defined)
    => LET me   == lastCall.agent.suiAddress
           sec  == lastCall.context.tradeProposals
           all  == lastCall.allProposals
           mine == {i \in 1..Len(all) : all[i].proposer = me \/ all[i].target = me}
           line(p) ==
               "- [" \o (IF p.proposer = me THEN "YOU PROPOSED" ELSE "PROPOSED TO YOU")
                  \o "] Trade with "
                  \o slice8(IF p.proposer = me THEN p.target ELSE p.proposer)
                  \o "...: Offering " \o ToString(p.woodOffered) \o "W, "
                  \o ToString(p.stoneOffered) \o "S, " \o ToString(p.emeraldOffered)
                  \o "E for " \o ToString(p.woodRequested) \o "W, "
                  \o ToString(p.stoneRequested) \o "S, " \o ToString(p.emeraldRequested)
                  \o "E (ID: " \o slice8(p.objectId) \o "...)"
       IN /\ sec[1] = "TRADE PROPOSALS:"
          /\ HasBlock(lastCall.context.fullContext, sec)
          /\ IF mine = {}
             THEN sec = <<"TRADE PROPOSALS:", "- No pending trade proposals">>
             ELSE /\ Len(sec) = 1 + Cardinality(mine) + 5
                  /\ sec[2 + Cardinality(mine)] = ""
                  /\ \A i \in mine :
                        Cardinality({k \in 2..(1 + Cardinality(mine)) :
                                        sec[k] = line(all[i])}) = 1

\* Bob is shown the proposal Alice made to him and the one he made to her,
\* while Carol stands by
C21_Witness ==
    /\ lastCall.op = "generateAgentContext"
    /\ lastCall.agent.suiAddress = "0xbbbbbb02"
    /\ Len(agents) = 3
    /\ Len(lastCall.context.tradeProposals) = 8
    /\ \E k \in 2..3 : lastCall.context.tradeProposals[k] =
          "- [PROPOSED TO YOU] Trade with 0xaaaaaa...: Offering 60W, 0S, 0E for 0W, 0S, 30E (ID: 0xd1...)"
    /\ \E k \in 2..3 : lastCall.context.tradeProposals[k] =
          "- [YOU PROPOSED] Trade with 0xaaaaaa...: Offering 60W, 0S, 0E for 0W, 0S, 30E (ID: 0xd2...)"

(***************************************************************************)
(* Claims about the world                                                   *)
(***************************************************************************)
\* C22: every agent's position lies within [0, worldWidth] x [0, worldHeight]
\* after any sequence of addAgent and updateAgentPosition calls, whatever
\* coordinates were requested.
C22_AgentsWithinWorld ==
    \A i \in 1..Len(agents) :
        /\ 0 <= agents[i].position[1]
        /\ agents[i].position[1] <= worldWidth
        /\ 0 <= agents[i].position[2]
        /\ agents[i].position[2] <= worldHeight

\* C23: a reconciliation pass never removes a world item: every item held
\* before a step of a pass, the call of it or the resumption after one of
\* its awaits, is held after the step, unchanged, whether or not the pass
\* enumerates the generator it shows; with no active match the pass changes
\* nothing.
C23_SyncRemovesNothing ==
    [][(\/ GameSync
        \/ AdminSetGame
        \/ \E f \in 1..Len(calls) :
              calls[f].fn = "syncGeneratorsToWorld" /\ ResumeCall(f))
       => /\ Len(items') >= Len(items)
          /\ \A i \in 1..Len(items) : \E j \in 1..Len(items') : items'[j] = items[i]
          /\ (lastCall'.op = "sync" /\ lastCall'.game = 0)
                => (items' = items /\ uuids' = uuids)
      ]_vars

\* a pass that enumerated nothing has run on a world that holds a projection
\* of an earlier pass next to the three default items
C23_Witness ==
    /\ lastCall.op = "sync"
    /\ lastCall.game # 0
    /\ lastCall.gens = <<>>
    /\ Len(generators) >= 1
    /\ Len(items) = 4
    /\ items[4].name = "Wood Generator"
    /\ items[1].name = "Ancient Tree"

\* C24: once agent, active match, generatorId and the agent's resources
\* resolve, the recapture route sends the ledger recapture exactly when
\* shouldRecaptureGenerator is true or a reason is supplied; with neither it
\* answers 400 and sends nothing; a request with a reason is never stopped
\* by the heuristic step, also when the generator is not among those
\* enumerated.
C24_HeuristicIsAdvisory ==
    [][(lastCall'.op = "recaptureRoute" /\ lastCall'.resolved) =>
          /\ lastCall'.reason => lastCall'.submitted
          /\ lastCall'.found =>
                (lastCall'.submitted <=> (lastCall'.reason \/ lastCall'.should))
          /\ (lastCall'.found /\ ~lastCall'.should /\ ~lastCall'.reason) =>
                (lastCall'.status = 400 /\ lastTx' = lastTx /\ generators' = generators)
      ]_vars

(***************************************************************************)
(* Claims about settlement, upgrades and balances                           *)
(***************************************************************************)
\* C25: a claim_resources that succeeds is sent by the owner of the
\* generator and of the PlayerResources; it credits
\* min(unclaimed + floor((now - last_claim_time) / 60000) * rate, max_cap)
\* to the counter of the generator's type, sets unclaimed to 0 and
\* last_claim_time to now; when the amount is 0 nothing changes; one that
\* aborts does so with E_NOT_OWNER and changes nothing.
C25_ClaimSettlesAccrual ==
    [][lastTx'.op = "claim_resources" =>
          IF lastTx'.ok
          THEN LET g  == generators[lastTx'.gen]
                   r  == resources[lastTx'.res]
                   total == g.unclaimed
                              + ((clock - g.last_claim_time) \div 60000) * g.generation_rate
                   amount == IF total > g.max_cap THEN g.max_cap ELSE total
               IN /\ g.owner = lastTx'.sender
                  /\ r.owner = lastTx'.sender
                  /\ lastTx'.credited = amount
                  /\ IF amount > 0
                     THEN /\ Balance(resources'[lastTx'.res], g.resource_type)
                                = Balance(r, g.resource_type) + amount
                          /\ \A t \in {0, 1, 2} \ {IF g.resource_type \in {0, 1}
                                                   THEN g.resource_type ELSE 2} :
                                Balance(resources'[lastTx'.res], t) = Balance(r, t)
                          /\ \A q \in 1..Len(resources) :
                                q # lastTx'.res => resources'[q] = resources[q]
                          /\ generators' =
                                [generators EXCEPT ![lastTx'.gen].unclaimed = 0,
                                                   ![lastTx'.gen].last_claim_time = clock]
                     ELSE generators' = generators /\ resources' = resources
          ELSE /\ lastTx'.code = E_NOT_OWNER
               /\ generators' = generators
               /\ resources' = resources
      ]_vars

\* the owner has drained one interval's worth of wood after 90 seconds
C25_Witness ==
    /\ lastTx.op = "claim_resources"
    /\ lastTx.ok
    /\ lastTx.credited = 10
    /\ resources[lastTx.res].wood = 110
    /\ generators[lastTx.gen].unclaimed = 0
    /\ generators[lastTx.gen].last_claim_time = 90000

\* the cap of every generator follows from its level
CapFollowsLevel ==
    \A g \in 1..Len(generators) :
        generators[g].max_cap = 1000 * (generators[g].level + 1)

\* C26: an upgrade_generator that succeeds is sent by the generator's owner
\* holding at least cost = 100 * (level + 1) wood and stone and cost / 2
\* emerald; it takes exactly those amounts, raises the level by one, sets
\* generation_rate = 20 * (new level + 1) and max_cap = 1000 * (new level + 1)
\* and leaves owner, unclaimed and last_claim_time alone; one that aborts
\* changes nothing; so every generator always has max_cap = 1000 * (level + 1).
C26_UpgradeChargesAndScales ==
    /\ []CapFollowsLevel
    /\ [][lastTx'.op = "upgrade_generator" =>
            IF lastTx'.ok
            THEN LET g  == generators[lastTx'.gen]
                     g2 == generators'[lastTx'.gen]
                     r  == resources[lastTx'.res]
                     r2 == resources'[lastTx'.res]
                     cost == 100 * (g.level + 1)
                 IN /\ g.owner = lastTx'.sender
                    /\ r.owner = lastTx'.sender
                    /\ r.wood >= cost /\ r.stone >= cost /\ r.emerald >= cost \div 2
                    /\ r2 = [r EXCEPT !.wood = r.wood - cost, !.stone = r.stone - cost,
                                      !.emerald = r.emerald - (cost \div 2)]
                    /\ \A q \in 1..Len(resources) :
                          q # lastTx'.res => resources'[q] = resources[q]
                    /\ g2 = [g EXCEPT !.level = g.level + 1,
                                      !.generation_rate = 20 * (g.level + 2),
                                      !.max_cap = 1000 * (g.level + 2)]
                    /\ \A n \in 1..Len(generators) :
                          n # lastTx'.gen => generators'[n] = generators[n]
            ELSE /\ lastTx'.code \in {E_NOT_OWNER, E_INSUFFICIENT_RESOURCES}
                 /\ generators' = generators
                 /\ resources' = resources
        ]_vars

\* an upgrade has taken a generator to level 1 and emptied its owner's record
C26_Witness ==
    /\ lastTx.op = "upgrade_generator"
    /\ lastTx.ok
    /\ generators[lastTx.gen].level = 1
    /\ generators[lastTx.gen].generation_rate = 40
    /\ generators[lastTx.gen].max_cap = 2000
    /\ resources[lastTx.res].wood = 0
    /\ resources[lastTx.res].emerald = 0

\* no counter of any PlayerResources record is below zero
BalancesNonNegative ==
    \A r \in 1..Len(resources) :
        /\ resources[r].wood >= 0
        /\ resources[r].stone >= 0
        /\ resources[r].emerald >= 0

\* C27: every wood, stone and emerald counter is >= 0 in every reachable
\* state and no entry function subtracts more than a record holds, although
\* propose_trade reserves nothing: an accept_trade or upgrade_generator that
\* goes through finds every amount it takes in the record it takes it from.
C27_NoCounterUnderflows ==
    /\ []BalancesNonNegative
    /\ [][/\ (lastTx'.op = "accept_trade" /\ lastTx'.ok) =>
                LET p  == proposals[lastTx'.prop]
                    pr == resources[lastTx'.res]
                    ar == resources[lastTx'.res2]
                IN /\ pr.wood >= p.wood_offered
                   /\ pr.stone >= p.stone_offered
                   /\ pr.emerald >= p.emerald_offered
                   /\ ar.wood >= p.wood_requested
                   /\ ar.stone >= p.stone_requested
                   /\ ar.emerald >= p.emerald_requested
          /\ (lastTx'.op = "upgrade_generator" /\ lastTx'.ok) =>
                LET r == resources[lastTx'.res]
                    cost == 100 * (generators[lastTx'.gen].level + 1)
                IN r.wood >= cost /\ r.stone >= cost /\ r.emerald >= cost \div 2
        ]_vars

\* an acceptance has been turned down for lack of funds while two proposals
\* of the same proposer stand open that together offer more wood than the
\* proposer was ever given
C27_Witness ==
    /\ lastTx.op = "accept_trade"
    /\ lastTx.code = E_INSUFFICIENT_RESOURCES
    /\ Len(proposals) = 2
    /\ proposals[1].live /\ proposals[2].live
    /\ proposals[1].proposer = proposals[2].proposer
    /\ proposals[1].wood_offered + proposals[2].wood_offered = 120
    /\ \E r \in 1..Len(resources) :
           /\ resources[r].owner = proposals[1].proposer
           /\ resources[r].wood = 0
    /\ \E g \in 1..Len(generators) :
           generators[g].owner = proposals[1].proposer /\ generators[g].level = 1

(***************************************************************************)
(* Claims about owned generators among the world items                      *)
(***************************************************************************)
\* the line of the nearby-items section that would show an item to an
\* observer standing at a position
itemLine(it, position) ==
    "- " \o it.name \o (IF it.interactive THEN " [Interactive]" ELSE "") \o ": "
         \o (IF Truthy(it.description) THEN it.description ELSE "No description")
         \o " " \o unitsAway(position, it.position)

\* the items that show a generator: the ones a pass has made for it, which
\* carry its name, its place and the size of a generator
projections(gen) ==
    {i \in 1..Len(items) :
        /\ items[i].name = generatorItem(gen).name
        /\ items[i].position = generatorItem(gen).position
        /\ items[i].size = generatorItem(gen).size}

\* the generators that the pass of the call that has just returned has
\* enumerated and that have an owner
ownedEnumerated ==
    IF "gens" \in DOMAIN lastCall /\ ~lastCall.threw
    THEN {k \in 1..Len(lastCall.gens) : lastCall.gens[k].owner # "0x0"}
    ELSE {}

\* C28: once a pass has reconciled a generator that has an owner, every item
\* projecting that generator has collectedBy set to the owner and is left
\* out of getAllItems and getItemsInRange: it has no line in the nearby-items
\* section of an observer standing on it, it is not counted in the world
\* summary, and the search for an existing projection never returns it.
C28_OwnedProjectionsAreHidden ==
    /\ \A k \in ownedEnumerated :
          /\ projections(lastCall.gens[k]) # {}
          /\ \A i \in projections(lastCall.gens[k]) :
                LET observer == [position |-> items[i].position]
                    listed   == getAllItems(items)
                IN /\ items[i].collectedBy = lastCall.gens[k].owner
                   /\ \A j \in 1..Len(listed) : listed[j].id # items[i].id
                   /\ \A range \in ContextRanges :
                         LET inRange == getItemsInRange(observer.position, range)
                             section == buildNearbyItemsInfo(observer, range)
                         IN /\ \A j \in 1..Len(inRange) : inRange[j].id # items[i].id
                            /\ \A j \in 1..Len(section) :
                                  section[j] # itemLine(items[i], observer.position)
                   /\ \A g \in 1..Len(lastCall.gens) :
                         existingItem(items, lastCall.gens[g]) # i
    /\ ownedEnumerated # {} =>
          worldParts[4] =
             "- Total items in world: "
                \o ToString(Cardinality(
                      {i \in 1..Len(items) :
                          /\ ~Truthy(items[i].collectedBy)
                          /\ \A k \in ownedEnumerated :
                                i \notin projections(lastCall.gens[k])}))

(***************************************************************************)
(* Claims about the chat with a dialogue agent                              *)
(***************************************************************************)
\* C29: a chat that reaches the dialogue server posts the user's message
\* exactly once, after one attempt to update world_context: unmodified when
\* the update succeeded, behind the first 15 non-empty lines of the context
\* when it failed; a failed post is answered 500 and not repeated.
C29_MessageSentExactlyOnce ==
    (lastCall.op = "chat" /\ lastCall.status \in {200, 500}) =>
        LET posts    == SelectSeq(lastCall.requests, LAMBDA r : r.method = "POST")
            patches  == SelectSeq(lastCall.requests, LAMBDA r : r.method = "PATCH")
            nonEmpty == SelectSeq(lastCall.context, LAMBDA line : line # "")
            n        == IF Len(nonEmpty) < 15 THEN Len(nonEmpty) ELSE 15
            content  == posts[1].content
        IN /\ Len(posts) = 1
           /\ Len(patches) = 1
           /\ lastCall.requests = patches \o posts
           /\ posts[1].agent = lastCall.agent
           /\ patches[1].content = lastCall.context
           /\ lastCall.patch = 200 => content = <<lastCall.message>>
           /\ lastCall.patch # 200 =>
                 /\ Len(content) = n + 3
                 /\ content[1] = "[Your current environment:"
                 /\ \A i \in 1..(n - 1) : content[i + 1] = nonEmpty[i]
                 /\ n > 0 => content[n + 1] = nonEmpty[n] \o "]"
                 /\ content[n + 2] = ""
                 /\ content[n + 3] = "Player says: " \o lastCall.message
           /\ lastCall.status = (IF lastCall.post = 200 THEN 200 ELSE 500)

\* the update failed and the post failed too: one post behind a context of
\* more than 15 non-empty lines with blank lines among the first 15
C29_Witness ==
    /\ lastCall.op = "chat"
    /\ lastCall.status = 500
    /\ lastCall.patch = 404
    /\ lastCall.post = 500
    /\ Len(SelectSeq(lastCall.context, LAMBDA line : line # "")) > 15
    /\ \E i \in 1..15 : lastCall.context[i] = ""
    /\ Len(lastCall.requests) = 2
    /\ lastCall.requests[2].content[1] = "[Your current environment:"

(***************************************************************************)
(* Claims about the chat dialog of the browser client                       *)
(***************************************************************************)
\* C30: when the reply to a message sent to agent A arrives while an agent
\* is selected, the visible chat history changes only if that agent is A,
\* and no chat history stored under another agent's key changes.
C30_ReplyStaysWithItsAgent ==
    [][\A i \in 1..Len(browser.pending) :
          (Len(browser'.pending) = Len(browser.pending) - 1) =>
             LET A == browser.pending[i].agentId
             IN /\ (/\ browser'.gameState.chatHistory # browser.gameState.chatHistory
                    /\ browser.gameState.selectedAgent # "")
                      => browser.gameState.selectedAgent = A
                /\ \A B \in ClientAgentIds \ {A} :
                      loadChatHistory(browser'.localStorage, B)
                         = loadChatHistory(browser.localStorage, B)
      ]_vars

====
